---------------------------- MODULE Spec2Model ----------------------------
(***************************************************************************)
(* A model of ccbot's coordination core: the session store's thread        *)
(* bindings (session.py) and the per-chat delivery queue with its worker   *)
(* (handlers/message_queue.py), the transcript handler for interactive     *)
(* tools (bot.py) and the pane poller (handlers/status_polling.py).        *)
(*                                                                         *)
(* The program runs on one asyncio event loop: code between two awaits     *)
(* that really suspend is one atomic step, so every action below is the    *)
(* code from one suspension point to the next.                             *)
(***************************************************************************)
EXTENDS Integers, Sequences, FiniteSets, TLC

\* Python's None, where the other values are strings or records.
None == "None"

\* None in place of a thread id (thread ids are positive integers).
NoThread == -1

\* None in place of a message id (the platform's message ids are positive).
NoMessage == 0

(***************************************************************************)
(* Part 1.  Session store: thread bindings and the reverse index.          *)
(***************************************************************************)

\* The chats, topic threads and window names the operations are called with.
Users == {100, 200}
Threads == {41, 42}
Windows == {"proj", "docs"}

VARIABLES
  thread_bindings,    \* SessionManager.thread_bindings: user_id -> (thread_id -> window_name)
  window_to_thread    \* SessionManager._window_to_thread: (user_id, window_name) -> thread_id

storeVars == <<thread_bindings, window_to_thread>>

\* A Python dict as a function on its key set.
EmptyDict == << >>

\* session_map.json when there is no such file; a file that is no JSON; and
\* a file holding a JSON object.
NoMapFile == [kind |-> "missing", map |-> EmptyDict]

BrokenMapFile == [kind |-> "broken", map |-> EmptyDict]

MapFileOf(map) == [kind |-> "json", map |-> map]

DictPop(d, k) == [x \in (DOMAIN d) \ {k} |-> d[x]]

DictSet(d, k, v) == [x \in (DOMAIN d) \cup {k} |-> IF x = k THEN v ELSE d[x]]

\* SessionManager.get_window_for_thread
get_window_for_thread(user_id, thread_id) ==
  IF user_id \notin DOMAIN thread_bindings
    THEN None
    ELSE IF thread_id \in DOMAIN thread_bindings[user_id]
           THEN thread_bindings[user_id][thread_id]
           ELSE None

\* SessionManager.get_thread_for_window
get_thread_for_window(user_id, window_name) ==
  IF <<user_id, window_name>> \in DOMAIN window_to_thread
    THEN window_to_thread[<<user_id, window_name>>]
    ELSE NoThread

\* SessionManager.iter_thread_bindings, as the set of (user, thread, window).
iter_thread_bindings ==
  UNION {{<<u, t, thread_bindings[u][t]>> : t \in DOMAIN thread_bindings[u]} :
           u \in DOMAIN thread_bindings}

\* SessionManager.bind_thread: sets the forward entry and the reverse entry
\* of the new window; it neither looks at the window the thread was bound to
\* before nor at a thread that already holds the window.
bind_thread(user_id, thread_id, window_name) ==
  LET bindings == IF user_id \in DOMAIN thread_bindings
                    THEN thread_bindings[user_id] ELSE EmptyDict
  IN /\ thread_bindings' =
          DictSet(thread_bindings, user_id, DictSet(bindings, thread_id, window_name))
     /\ window_to_thread' =
          DictSet(window_to_thread, <<user_id, window_name>>, thread_id)

\* A mutant of unbind_thread: the binding is kept.
unbind_thread_keeps(user_id, thread_id) == UNCHANGED storeVars

\* SessionManager.unbind_thread: a no-op (returns None) for an unbound thread.
unbind_thread(user_id, thread_id) ==
  IF user_id \notin DOMAIN thread_bindings
     \/ thread_id \notin DOMAIN thread_bindings[user_id]
    THEN UNCHANGED storeVars
    ELSE LET window_name == thread_bindings[user_id][thread_id]
             rest == DictPop(thread_bindings[user_id], thread_id)
         IN /\ window_to_thread' = DictPop(window_to_thread, <<user_id, window_name>>)
            /\ thread_bindings' =
                 IF DOMAIN rest = {}
                   THEN DictPop(thread_bindings, user_id)
                   ELSE DictSet(thread_bindings, user_id, rest)


(***************************************************************************)
(* Part 2.  Delivery tasks and merging (handlers/message_queue.py).        *)
(*                                                                         *)
(* A part of a content task is a string; the model keeps of it what the   *)
(* code reads, its length (len), and which enqueued task it came from      *)
(* (src).  A task's ids field is not in the code: it lists the enqueue     *)
(* numbers of the tasks the task stands for (one, or several once merged). *)
(***************************************************************************)

\* MERGE_MAX_LENGTH
MERGE_MAX_LENGTH == 3800

VARIABLES
  m_first,    \* a call of _merge_content_tasks: the task the worker took
  m_items,    \* ... the content of the queue at the call
  m_result    \* ... what the call returned and left in the queue: << >> before it, <<r>> after

mergeVars == <<m_first, m_items, m_result>>

\* MessageTask
MessageTask(id, task_type, text, window_name, lens, tool_use_id, content_type, thread_id) ==
  [ ids          |-> <<id>>,
    task_type    |-> task_type,
    text         |-> text,
    window_name  |-> window_name,
    parts        |-> [k \in 1..Len(lens) |-> [src |-> id, len |-> lens[k]]],
    tool_use_id  |-> tool_use_id,
    content_type |-> content_type,
    thread_id    |-> thread_id ]

\* sum(len(p) for p in parts)
RECURSIVE PartsLength(_)
PartsLength(parts) ==
  IF parts = << >> THEN 0 ELSE Head(parts).len + PartsLength(Tail(parts))

\* A mutant of _can_merge_tasks: the two content_type tests are missing.
_can_merge_tasks_ignoring_tools(base, candidate) ==
  IF base.window_name # candidate.window_name THEN FALSE
  ELSE IF candidate.task_type # "content" THEN FALSE
  ELSE TRUE

\* _can_merge_tasks
_can_merge_tasks(base, candidate) ==
  IF base.window_name # candidate.window_name THEN FALSE
  ELSE IF candidate.task_type # "content" THEN FALSE
  ELSE IF base.content_type \in {"tool_use", "tool_result"} THEN FALSE
  ELSE IF candidate.content_type \in {"tool_use", "tool_result"} THEN FALSE
  ELSE TRUE

\* A mutant of TooLong: the test looks at the length merged so far only.
TooLong_before_adding(current_length, task_length) ==
  current_length > MERGE_MAX_LENGTH

\* The length test of _merge_content_tasks:
\* current_length + task_length > MERGE_MAX_LENGTH
TooLong(current_length, task_length) ==
  current_length + task_length > MERGE_MAX_LENGTH

\* The for loop of _merge_content_tasks over the drained items, from item i
\* on: the result holds the merged parts, the number of absorbed tasks and
\* the items to put back (items[i:] at the first break, none otherwise).
RECURSIVE MergeLoop(_, _, _, _, _, _)
MergeLoop(first, items, i, merged_parts, current_length, merge_count) ==
  IF i > Len(items)
    THEN [parts |-> merged_parts, merge_count |-> merge_count, remaining |-> << >>]
  ELSE IF ~ _can_merge_tasks(first, items[i])
    THEN [parts |-> merged_parts, merge_count |-> merge_count,
          remaining |-> SubSeq(items, i, Len(items))]
  ELSE IF TooLong(current_length, PartsLength(items[i].parts))
    THEN [parts |-> merged_parts, merge_count |-> merge_count,
          remaining |-> SubSeq(items, i, Len(items))]
  ELSE MergeLoop(first, items, i + 1,
                 merged_parts \o items[i].parts,
                 current_length + PartsLength(items[i].parts),
                 merge_count + 1)

\* The ids of the first n items, in order.
RECURSIVE AbsorbedIds(_, _)
AbsorbedIds(items, n) ==
  IF n = 0 THEN << >> ELSE AbsorbedIds(items, n - 1) \o items[n].ids

\* _merge_content_tasks(queue, first, lock), on the drained queue content
\* `items`: the merged task, the merge count, and the queue content after
\* the put-back.  The merged task is a new MessageTask, whose text is the
\* default None.
_merge_content_tasks(first, items) ==
  LET r == MergeLoop(first, items, 1, first.parts, PartsLength(first.parts), 0)
  IN [ merged_task |->
         IF r.merge_count = 0 THEN first
         ELSE [ ids          |-> first.ids \o AbsorbedIds(items, r.merge_count),
                task_type    |-> "content",
                text         |-> None,
                window_name  |-> first.window_name,
                parts        |-> r.parts,
                tool_use_id  |-> first.tool_use_id,
                content_type |-> first.content_type,
                thread_id    |-> first.thread_id ],
       merge_count |-> r.merge_count,
       remaining   |-> r.remaining ]


(***************************************************************************)
(* Part 3.  One chat's delivery queue, its worker and the chat platform.   *)
(*                                                                         *)
(* The state is that of one user_id: its asyncio.Queue, its worker, and    *)
(* the entries of _tool_msg_ids and _status_msg_info with that user_id     *)
(* (so their keys lose the user_id component).                             *)
(***************************************************************************)

\* The number of tasks ever enqueued.
MaxEnqueued == 3

VARIABLES
  queue,            \* the items of _message_queues[user_id], head first
  unfinished,       \* asyncio.Queue._unfinished_tasks
  join_state,       \* a caller of queue.join(): "none", "waiting", "released"
  w,                \* the worker coroutine: where it is suspended, and its locals
  tool_msg_ids,     \* _tool_msg_ids: (tool_use_id, thread_id_or_0) -> message_id
  status_msg_info,  \* _status_msg_info: thread_id_or_0 -> (message_id, window_name, last_text)
  next_message_id,  \* the message_id the platform gives the next sent message
  next_id,          \* the number the next enqueued task gets (not in the code)
  join_before,      \* the tasks enqueued before the join call (not in the code)
  done,             \* the tasks whose processing has ended (not in the code)
  last_failed,      \* the task whose send was last given up after a platform error, or
                    \* whose processing another exception ended last (not in the code)
  ops               \* the platform calls that delivered content, in order (not in the code)

queueVars == <<queue, unfinished, join_state, w, tool_msg_ids, status_msg_info,
               next_message_id, next_id, join_before, done, last_failed, ops>>

\* The state of Part 4: the interactive prompts of the chat, the transcript
\* handler, the pane poller, the assistant's transcript and pane.
VARIABLES
  interactive_msgs,  \* _interactive_msgs: thread_id_or_0 -> message_id
  interactive_mode,  \* _interactive_mode: thread_id_or_0 -> window_name
  h,                 \* handle_new_message: where it is suspended, and its message
  pl,                \* status_poll_loop: where it is suspended, and its locals
  transcript,        \* the events the monitor has not handed over yet
  emitted,           \* the events written so far (not in the code)
  pane,              \* what the window's pane shows: "blank", a status line
                     \* ("working", "thinking"), or the prompt "ui"
  overtaken          \* the text tasks enqueued and not delivered when a keyboard
                     \* message was sent (not in the code)

uiVars == <<interactive_msgs, interactive_mode, h, pl, transcript, emitted, pane,
            overtaken>>

\* The state of Part 5: the transcript monitor, the files it reads and the
\* session map the hook writes.
VARIABLES
  session_map,       \* session_map.json, as _load_current_session_map reads it:
                     \* window_name -> session_id
  files,             \* the transcript file of each session: its records and its mtime
  tracked_sessions,  \* MonitorState.tracked_sessions: session_id -> last_byte_offset
  persisted,         \* monitor_state.json: session_id -> last_byte_offset
  dirty,             \* MonitorState._dirty
  file_mtimes,       \* SessionMonitor._file_mtimes: session_id -> mtime
  pending_tools,     \* SessionMonitor._pending_tools: session_id -> pending tool uses
  last_session_map,  \* SessionMonitor._last_session_map: window_name -> session_id
  mon,               \* _monitor_loop: where it is suspended, and its locals
  delivered,         \* the messages the callback was called with, in order
  truncated,         \* the sessions whose file was ever truncated (not in the code)
  next_rec,          \* the number the next record written gets (not in the code)
  restarts           \* how many times the bot was restarted (not in the code)

monVars == <<session_map, files, tracked_sessions, persisted, dirty, file_mtimes,
             pending_tools, last_session_map, mon, delivered, truncated, next_rec,
             restarts>>

\* Calls of TranscriptParser.parse_entries on one record sequence.
VARIABLES
  p_records,  \* the records
  p_pos,      \* how many of them the streaming calls have taken
  p_events,   \* the events the streaming calls returned, in order
  p_cuts,     \* the positions at which a streaming call ended (not in the code)
  p_oneshot   \* the events of the one-shot call: << >> before it, <<events>> after

parseVars == <<p_records, p_pos, p_events, p_cuts, p_oneshot>>

\* Topics, windows and the update handlers (bot.py, session.py,
\* handlers/status_polling.py).
VARIABLES
  mux_windows,    \* the names of the multiplexer's windows that exist
  window_states,  \* SessionManager.window_states: window_name -> session_id
  user_data,      \* context.user_data of the user: STATE_KEY and _pending_thread_id,
                  \* and the chat the pending thread is a topic of (not in the code)
  th,             \* the update handler that is running (updates are handled one by one)
  sp,             \* status_poll_loop: its loop over the bindings
  notified,       \* (chat, thread) -> how many stale-binding notices the user got (not in the code)
  cleaned         \* the (chat, thread, caller) clear_topic_state ran for (not in the code)

topicVars == <<mux_windows, window_states, user_data, th, sp, notified, cleaned>>

VARIABLE
  cleared         \* the windows whose session was cleared after /clear, and for
                  \* which the hook has written no new session since (not in the code)

\* The dictionaries of the handlers that a topic's cleanup empties
\* (handlers/message_queue.py, handlers/interactive_ui.py,
\* handlers/status_polling.py), with their full keys, for all chats.
VARIABLE
  mem             \* each dictionary as the set of its keys

\* The Zellij session and the calls of its driver
\* (multiplexer/zellij_backend.py).
VARIABLES
  z_tabs,      \* the tabs of the session: tab name -> how many tabs carry it
  z_focus,     \* the name of the focused tab
  z_lock,      \* ZellijBackend._lock: the call that holds it, or 0
  z_ops,       \* the calls of the driver that are running
  z_started,   \* how many create_window calls were started (not in the code)
  z_returned   \* the names the create_window calls returned (not in the code)

zVars == <<z_tabs, z_focus, z_lock, z_ops, z_started, z_returned>>

\* The hook processes and the files they write (hook.py).
VARIABLES
  hk,          \* the hook invocations: where each is, and its locals
  hk_lock,     \* who holds the advisory lock on session_map.lock, or 0
  tmp_file,    \* the temporary file of atomic_write_json
  map_torn,    \* session_map.json holds a text that was written in part only
  main_read    \* what the last read of the map by the main process gave

hookVars == <<hk, hk_lock, tmp_file, map_torn, main_read>>

\* The rest of the session store (session.py) and its state file.
VARIABLES
  user_window_offsets,  \* SessionManager.user_window_offsets: user_id -> (window_name -> offset)
  state_file            \* state.json, as json.loads reads it

diskVars == <<user_window_offsets, state_file>>

\* The updates that were refused, and the keys the handlers sent.
VARIABLES
  refused,    \* the users whose update ended at the check of is_user_allowed
  keys_sent   \* <<chat_id, thread_id, window_name>> of every send_keys of a handler

accessVars == <<refused, keys_sent>>

\* One transcript on its way to one chat: the file, the monitor's reading,
\* the transcript handler (bot.py) and the chat's queue.
VARIABLES
  t_file,     \* the records of the transcript file, in order
  t_read,     \* how many of them the monitor has read
  t_pending,  \* the messages the monitor read and has not yet called the handler with
  hm,         \* handle_new_message: where it is suspended, and the record of its message
  t_queue,    \* the content tasks in the chat's queue (the record of each)
  t_sent      \* the records whose message was sent to the chat (not in the code)

offsetVars == <<t_file, t_read, t_pending, hm, t_queue, t_sent>>

\* The session map as a file (session.py load_session_map).
VARIABLE
  map_file    \* session_map.json: missing, broken (no JSON), or its JSON object

\* The background loops and what may fail in them (status_polling.py
\* status_poll_loop, session_monitor.py _monitor_loop and check_for_updates).
VARIABLES
  ploop,      \* the pane poller's loop: where it is, the bindings of this iteration
  mloop,      \* the monitor's loop: where it is, the sessions of this iteration
  t_health    \* how the transcript file of each session can be read

loopVars == <<ploop, mloop, t_health>>

\* The deliveries to one topic, with the topics' handlers and the poller
\* around them (handlers/message_queue.py, handlers/status_polling.py).
VARIABLES
  dq,         \* the tasks of the topic in the chat's queue, head first
  dw,         \* the queue's worker: where it is suspended, its task, a message id
  dp,         \* update_status_message for the topic's binding: where it is suspended
  s_id,       \* the message id of the topic's entry of _status_msg_info, when it has one
  s_live,     \* the status messages in the chat: sent as status, neither deleted
              \* nor turned into content (not in the code)
  s_next,     \* the message_id the platform gives the next sent message
  d_count     \* the number of content tasks ever enqueued (not in the code)

delivVars == <<dq, dw, dp, s_id, s_live, s_next, d_count>>

\* The state of the parts that follow the read offset.
tailVars == <<map_file, loopVars, delivVars>>

\* The state of the parts that follow the topics.
partVars == <<zVars, hookVars, diskVars, accessVars, offsetVars, tailVars>>

moreVars == <<mem, partVars>>

\* The state of the parts that follow the monitor.
restVars == <<topicVars, cleared, moreVars>>

\* The state of the parts that follow Part 4.
laterVars == <<monVars, parseVars, restVars>>

\* The state of the parts up to the topics.
baseVars == <<storeVars, mergeVars, queueVars, uiVars, monVars, parseVars, topicVars,
              cleared, mem>>

\* How a call of the bot API ends: it returns, raises RetryAfter, or raises
\* another error.
Outcomes == {"ok", "RetryAfter", "error"}

\* What a pane capture gives the worker: nothing (the capture failed), a
\* pane without a status line, one with the status line "working", one with
\* an interactive prompt.
PaneReads == {"none", "blank", "working", "ui"}

\* parse_status_line(pane_text): the text of the pane's status line, if any.
parse_status_line(pane_text) ==
  IF pane_text \in {"working", "thinking"} THEN pane_text ELSE None

\* thread_id or 0
ThreadOr0(thread_id) == IF thread_id = NoThread THEN 0 ELSE thread_id

\* The worker between two tasks.  merge_count and put_back are what
\* _merge_content_tasks returned and the number of items it put back.
\* edit_try tells which try block of the tool_result branch the worker is in
\* (1: the MarkdownV2 edit's, 2: the plain-text edit's, 0: neither).
\* edit_errors is not in the code: it counts the edit calls of a tool_result
\* that ended in a non-rate-limit error.
IdleWorker ==
  [ pc |-> "idle", task |-> None, merge_count |-> 0, put_back |-> 0, i |-> 0,
    last_msg_id |-> NoMessage, edit_msg_id |-> NoMessage, msg_id |-> NoMessage,
    status_text |-> None, edit_try |-> 0, edit_errors |-> 0 ]

\* The state the worker's steps read and write, as one value.
St ==
  [ queue |-> queue, unfinished |-> unfinished, join_state |-> join_state, w |-> w,
    tool |-> tool_msg_ids, status |-> status_msg_info,
    next_message_id |-> next_message_id, done |-> done,
    last_failed |-> last_failed, ops |-> ops ]

Commit(st) ==
  /\ queue' = st.queue
  /\ unfinished' = st.unfinished
  /\ join_state' = st.join_state
  /\ w' = st.w
  /\ tool_msg_ids' = st.tool
  /\ status_msg_info' = st.status
  /\ next_message_id' = st.next_message_id
  /\ done' = st.done
  /\ last_failed' = st.last_failed
  /\ ops' = st.ops

\* One successful platform call: op is "send", "edit" or "delete", what is
\* "content" or "status", src the tasks whose text the message now shows.
\* The log keeps the calls that deliver content.
Logged(st, op, what, src, msg) ==
  IF what = "content"
    THEN [st EXCEPT !.ops = Append(@, [op |-> op, src |-> src, msg |-> msg])]
    ELSE st

\* asyncio.Queue.put_nowait: the item is appended, the unfinished count
\* grows and the finished event is cleared.
put_nowait(st, item) ==
  [st EXCEPT !.queue = Append(@, item), !.unfinished = @ + 1]

\* asyncio.Queue.task_done: ValueError when nothing is unfinished; at zero
\* the finished event is set, which releases the waiters of join().
task_done(st) ==
  IF st.unfinished <= 0 THEN st
  ELSE [st EXCEPT !.unfinished = @ - 1,
                  !.join_state = IF @ = "waiting" /\ st.unfinished = 1
                                   THEN "released" ELSE @]

\* n calls of task_done.
RECURSIVE task_done_times(_, _)
task_done_times(st, n) ==
  IF n = 0 THEN st ELSE task_done_times(task_done(st), n - 1)

\* A mutant of PutBack: the items are put back last first.
RECURSIVE PutBack_reversed(_, _)
PutBack_reversed(st, remaining) ==
  IF remaining = << >> THEN st
  ELSE PutBack_reversed(task_done(put_nowait(st, remaining[Len(remaining)])),
                        SubSeq(remaining, 1, Len(remaining) - 1))

\* A mutant of PutBack: the compensating task_done is missing.
RECURSIVE PutBack_uncompensated(_, _)
PutBack_uncompensated(st, remaining) ==
  IF remaining = << >> THEN st
  ELSE PutBack_uncompensated(put_nowait(st, Head(remaining)), Tail(remaining))

\* The put-back loop of _merge_content_tasks: put_nowait, then the
\* compensating task_done, item by item.
RECURSIVE PutBack(_, _)
PutBack(st, remaining) ==
  IF remaining = << >> THEN st
  ELSE PutBack(task_done(put_nowait(st, Head(remaining))), Tail(remaining))

\* The enqueue numbers of the worker's task.
TaskIds(st) == {st.w.task.ids[k] : k \in 1..Len(st.w.task.ids)}

\* The end of one iteration of the worker loop: finally: queue.task_done(),
\* and back to queue.get().
Finish(st) ==
  LET st1 == task_done(st)
  IN [st1 EXCEPT !.done = @ \cup TaskIds(st), !.w = IdleWorker]

\* RetryAfter reaches the worker's handler: await asyncio.sleep(retry_secs).
RaiseRetryAfter(st) ==
  [st EXCEPT !.w.pc = "sleep"]

\* A mutant of RaiseError: the worker leaves its loop.
RaiseError_stops_worker(st) ==
  [st EXCEPT !.w.pc = "stopped"]

\* Another exception reaches the worker's handler: it is logged, and the
\* finally clause runs.
RaiseError(st) == Finish([st EXCEPT !.last_failed = TaskIds(st)])

\* _do_clear_status_message up to its await: the entry is popped; with an
\* entry the delete call follows (pc_delete), without one the caller goes on
\* at pc_next ("finish" ends the task).
DoClearStatus(st, tid, pc_delete, pc_next) ==
  IF tid \in DOMAIN st.status
    THEN [st EXCEPT !.status = DictPop(@, tid),
                    !.w.msg_id = st.status[tid].msg_id,
                    !.w.pc = pc_delete]
    ELSE IF pc_next = "finish" THEN Finish(st)
         ELSE [st EXCEPT !.w.pc = pc_next]

\* _check_and_send_status up to its first await: nothing is done while the
\* queue holds a task.
CheckAndSendStatus(st) ==
  IF st.queue # << >> THEN Finish(st)
  ELSE [st EXCEPT !.w.pc = "cs_find"]

\* Steps 3 and 4 of _process_content_task: the tool_use message id is
\* recorded, then the status check.
AfterParts(st) ==
  LET task == st.w.task
      tid == ThreadOr0(task.thread_id)
      st1 == IF st.w.last_msg_id # NoMessage /\ task.tool_use_id # None
                /\ task.content_type = "tool_use"
               THEN [st EXCEPT !.tool = DictSet(@, <<task.tool_use_id, tid>>,
                                                st.w.last_msg_id)]
               ELSE st
  IN CheckAndSendStatus(st1)

\* The part loop of _process_content_task from part i on, up to the next
\* await: the first part tries _convert_status_to_content, which pops the
\* status entry and deletes the message (another window's) or edits it.
PartLoop(st, i) ==
  LET task == st.w.task
      tid == ThreadOr0(task.thread_id)
  IN IF i > Len(task.parts) THEN AfterParts(st)
     ELSE IF i = 1 /\ tid \in DOMAIN st.status
       THEN [st EXCEPT !.status = DictPop(@, tid),
                       !.w.i = i,
                       !.w.msg_id = st.status[tid].msg_id,
                       !.w.pc = IF st.status[tid].window_name # task.window_name
                                  THEN "cv_delete" ELSE "cv_edit"]
     ELSE [st EXCEPT !.w.i = i, !.w.pc = "send"]

\* _process_content_task up to its first await: a tool_result whose
\* tool_use message id is recorded pops the entry, clears the status
\* message and edits; everything else sends its parts.
ProcessContent(st) ==
  LET task == st.w.task
      tid == ThreadOr0(task.thread_id)
      key == <<task.tool_use_id, tid>>
  IN IF task.content_type = "tool_result" /\ task.tool_use_id # None
        /\ key \in DOMAIN st.tool
       THEN DoClearStatus([st EXCEPT !.tool = DictPop(@, key),
                                     !.w.edit_msg_id = st.tool[key]],
                          tid, "tr_clear", "tr_edit")
       ELSE PartLoop(st, 1)

\* _process_status_update_task up to its first await (the typing indicator,
\* a call whose errors are ignored, is left out).
ProcessStatusUpdate(st) ==
  LET task == st.w.task
      tid == ThreadOr0(task.thread_id)
      st1 == [st EXCEPT !.w.status_text = task.text]
  IN IF task.text = None THEN DoClearStatus(st, tid, "sc_clear", "finish")
     ELSE IF tid \notin DOMAIN st.status THEN [st1 EXCEPT !.w.pc = "st_send"]
     ELSE IF st.status[tid].window_name # task.window_name
       THEN DoClearStatus(st1, tid, "su_clear", "st_send")
     ELSE IF st.status[tid].last_text = task.text THEN Finish(st)
     ELSE [st1 EXCEPT !.w.msg_id = st.status[tid].msg_id, !.w.pc = "su_edit"]

\* The worker from queue.get() to the first await of the task's processing.
\* A content task is merged first: the queue is drained, the mergeable prefix
\* absorbed, the rest put back, and task_done called for each absorbed task.
\* A status_clear task clears the status of thread_id_or_0 = 0, the default
\* of _do_clear_status_message.
Dequeue(st) ==
  LET first == Head(st.queue)
      m == _merge_content_tasks(first, Tail(st.queue))
      st1 == PutBack([st EXCEPT !.queue = << >>], m.remaining)
      st2 == task_done_times(st1, m.merge_count)
      popped == [st EXCEPT !.queue = Tail(@), !.w = [IdleWorker EXCEPT !.task = first]]
  IN CASE first.task_type = "content" ->
            ProcessContent([st2 EXCEPT !.w = [IdleWorker EXCEPT
                                                !.task = m.merged_task,
                                                !.merge_count = m.merge_count,
                                                !.put_back = Len(m.remaining)]])
       [] first.task_type = "status_update" -> ProcessStatusUpdate(popped)
       [] OTHER -> DoClearStatus(popped, 0, "sc_clear", "finish")

\* bot.send_message returned: the platform gave the message its id.
Sent(st, what, src) ==
  Logged([st EXCEPT !.next_message_id = @ + 1], "send", what, src, st.next_message_id)

\* The srcs of a sequence of parts, in order.
PartSrcs(parts) == [k \in 1..Len(parts) |-> parts[k].src]

\* The tool_result branch of _process_content_task resumes: the status
\* delete (errors ignored), the MarkdownV2 edit of the recorded message, the
\* plain-text edit.  After a successful edit the status check runs inside
\* the edit's try block; when both edits fail the parts are sent as new
\* messages.
ResumeEditToolResult(st, o) ==
  LET task == st.w.task
      edited == Logged(st, "edit", "content", PartSrcs(task.parts), st.w.edit_msg_id)
  IN CASE st.w.pc = "tr_clear" ->
            [(IF o = "ok" THEN Logged(st, "delete", "status", << >>, st.w.msg_id) ELSE st)
               EXCEPT !.w.pc = "tr_edit"]
       [] st.w.pc = "tr_edit" ->
            IF o = "ok" THEN CheckAndSendStatus([edited EXCEPT !.w.edit_try = 1])
            ELSE IF o = "RetryAfter" THEN RaiseRetryAfter(st)
            ELSE [st EXCEPT !.w.pc = "tr_edit_plain", !.w.edit_errors = @ + 1]
       [] OTHER ->
            IF o = "ok" THEN CheckAndSendStatus([edited EXCEPT !.w.edit_try = 2])
            ELSE IF o = "RetryAfter" THEN RaiseRetryAfter(st)
            ELSE PartLoop([st EXCEPT !.w.edit_errors = @ + 1], 1)

\* _convert_status_to_content resumes, for the first part: the delete of
\* another window's status message (errors ignored, the part is then sent),
\* the MarkdownV2 edit, the plain-text edit.  An edit that succeeds makes the
\* status message the part's message.
ResumeConvertStatus(st, o) ==
  LET part == st.w.task.parts[st.w.i]
      converted == [Logged(st, "edit", "content", <<part.src>>, st.w.msg_id)
                      EXCEPT !.w.last_msg_id = st.w.msg_id]
  IN CASE st.w.pc = "cv_delete" ->
            [(IF o = "ok" THEN Logged(st, "delete", "status", << >>, st.w.msg_id) ELSE st)
               EXCEPT !.w.pc = "send"]
       [] st.w.pc = "cv_edit" ->
            IF o = "ok" THEN PartLoop(converted, st.w.i + 1)
            ELSE IF o = "RetryAfter" THEN RaiseRetryAfter(st)
            ELSE [st EXCEPT !.w.pc = "cv_edit_plain"]
       [] OTHER ->
            IF o = "ok" THEN PartLoop(converted, st.w.i + 1)
            ELSE IF o = "RetryAfter" THEN RaiseRetryAfter(st)
            ELSE [st EXCEPT !.w.pc = "send"]

\* rate_limit_send_message of part i resumes: the MarkdownV2 send, the
\* plain-text send.  When both fail the part is given up (sent is None)
\* and the loop goes on.
ResumeSendPart(st, o) ==
  LET part == st.w.task.parts[st.w.i]
      sent == [Sent(st, "content", <<part.src>>) EXCEPT !.w.last_msg_id = st.next_message_id]
  IN IF o = "ok" THEN PartLoop(sent, st.w.i + 1)
     ELSE IF o = "RetryAfter" THEN RaiseRetryAfter(st)
     ELSE IF st.w.pc = "send" THEN [st EXCEPT !.w.pc = "send_plain"]
     ELSE PartLoop([st EXCEPT !.last_failed = {part.src}], st.w.i + 1)

\* An exception other than RetryAfter leaves _check_and_send_status: in the
\* try block of the MarkdownV2 edit it is caught as if the edit had failed
\* and the plain-text edit follows; in the try block of the plain-text edit
\* the parts are sent as new messages; elsewhere it reaches the worker.
StatusCheckRaises(st) ==
  CASE st.w.edit_try = 1 -> [st EXCEPT !.w.edit_try = 0, !.w.pc = "tr_edit_plain"]
    [] st.w.edit_try = 2 -> PartLoop([st EXCEPT !.w.edit_try = 0], 1)
    [] OTHER -> RaiseError(st)

\* How find_window_by_name ends for the worker.
FindResults == {"found", "missing", "raises"}

\* _check_and_send_status resumes from find_window_by_name (found is
\* "found", "missing" or "raises") and from capture_pane (read).
ResumeCheckStatus(st, found, read) ==
  IF st.w.pc = "cs_find"
    THEN CASE found = "found" -> [st EXCEPT !.w.pc = "cs_capture"]
           [] found = "missing" -> Finish(st)
           [] OTHER -> StatusCheckRaises(st)
    ELSE IF parse_status_line(read) # None
           THEN [st EXCEPT !.w.status_text = parse_status_line(read), !.w.pc = "st_send"]
           ELSE Finish(st)

\* _do_send_status_message resumes: a sent message is recorded as the
\* thread's status message.
ResumeSendStatus(st, o) ==
  LET task == st.w.task
      tid == ThreadOr0(task.thread_id)
      wname == IF task.window_name = None THEN "" ELSE task.window_name
      sent == [Sent(st, "status", << >>) EXCEPT
                 !.status = DictSet(@, tid, [msg_id |-> st.next_message_id,
                                             window_name |-> wname,
                                             last_text |-> st.w.status_text])]
  IN IF o = "ok" THEN Finish(sent)
     ELSE IF o = "RetryAfter" THEN RaiseRetryAfter(st)
     ELSE IF st.w.pc = "st_send" THEN [st EXCEPT !.w.pc = "st_send_plain"]
     ELSE Finish([st EXCEPT !.last_failed = TaskIds(st)])

\* _process_status_update_task and the status_clear task resume: the delete
\* of the old status message (errors ignored), the MarkdownV2 edit in place,
\* the plain-text edit; when both fail the entry is popped and a new status
\* message is sent.
ResumeStatusTask(st, o) ==
  LET task == st.w.task
      tid == ThreadOr0(task.thread_id)
      deleted == IF o = "ok" THEN Logged(st, "delete", "status", << >>, st.w.msg_id) ELSE st
      edited == [Logged(st, "edit", "status", << >>, st.w.msg_id) EXCEPT
                   !.status = DictSet(@, tid, [msg_id |-> st.w.msg_id,
                                               window_name |-> task.window_name,
                                               last_text |-> task.text])]
  IN CASE st.w.pc = "sc_clear" -> Finish(deleted)
       [] st.w.pc = "su_clear" -> [deleted EXCEPT !.w.pc = "st_send"]
       [] st.w.pc = "su_edit" ->
            IF o = "ok" THEN Finish(edited)
            ELSE IF o = "RetryAfter" THEN RaiseRetryAfter(st)
            ELSE [st EXCEPT !.w.pc = "su_edit_plain"]
       [] OTHER ->
            IF o = "ok" THEN Finish(edited)
            ELSE IF o = "RetryAfter" THEN RaiseRetryAfter(st)
            ELSE [st EXCEPT !.status = DictPop(@, tid), !.w.pc = "st_send"]

(***************************************************************************)
(* The worker's actions: _message_queue_worker from one await to the next. *)
(***************************************************************************)

WorkerFrame == UNCHANGED <<next_id, join_before, storeVars, mergeVars, uiVars, laterVars>>

WorkerGet ==
  /\ w.pc = "idle"
  /\ queue # << >>
  /\ Commit(Dequeue(St))
  /\ WorkerFrame

WorkerEditToolResult(o) ==
  /\ w.pc \in {"tr_clear", "tr_edit", "tr_edit_plain"}
  /\ Commit(ResumeEditToolResult(St, o))
  /\ WorkerFrame

WorkerConvertStatus(o) ==
  /\ w.pc \in {"cv_delete", "cv_edit", "cv_edit_plain"}
  /\ Commit(ResumeConvertStatus(St, o))
  /\ WorkerFrame

WorkerSendPart(o) ==
  /\ w.pc \in {"send", "send_plain"}
  /\ Commit(ResumeSendPart(St, o))
  /\ WorkerFrame

WorkerCheckStatus(found, read) ==
  /\ w.pc \in {"cs_find", "cs_capture"}
  /\ Commit(ResumeCheckStatus(St, found, read))
  /\ WorkerFrame

WorkerSendStatus(o) ==
  /\ w.pc \in {"st_send", "st_send_plain"}
  /\ Commit(ResumeSendStatus(St, o))
  /\ WorkerFrame

WorkerStatusTask(o) ==
  /\ w.pc \in {"sc_clear", "su_clear", "su_edit", "su_edit_plain"}
  /\ Commit(ResumeStatusTask(St, o))
  /\ WorkerFrame

\* asyncio.sleep(retry_secs) is over: the finally clause, and the next task.
WorkerSleep ==
  /\ w.pc = "sleep"
  /\ Commit(Finish(St))
  /\ WorkerFrame

Worker ==
  \/ WorkerGet
  \/ \E o \in Outcomes : WorkerEditToolResult(o)
  \/ \E o \in Outcomes : WorkerConvertStatus(o)
  \/ \E o \in Outcomes : WorkerSendPart(o)
  \/ \E found \in FindResults, read \in PaneReads :
       WorkerCheckStatus(found, read)
  \/ \E o \in Outcomes : WorkerSendStatus(o)
  \/ \E o \in Outcomes : WorkerStatusTask(o)
  \/ WorkerSleep

(***************************************************************************)
(* The producers and the caller of join().                                 *)
(***************************************************************************)

ProducerFrame ==
  UNCHANGED <<join_state, w, tool_msg_ids, status_msg_info, next_message_id,
              join_before, done, last_failed, ops, storeVars, mergeVars, uiVars,
              laterVars>>

\* enqueue_content_message
enqueue_content_message(window_name, lens, tool_use_id, content_type, thread_id) ==
  /\ next_id <= MaxEnqueued
  /\ LET task == MessageTask(next_id, "content", None, window_name, lens,
                             tool_use_id, content_type, thread_id)
         st == put_nowait(St, task)
     IN queue' = st.queue /\ unfinished' = st.unfinished
  /\ next_id' = next_id + 1
  /\ ProducerFrame

\* enqueue_status_update: a status_update task for a text, a status_clear
\* task for none.
enqueue_status_update(window_name, status_text, thread_id) ==
  /\ next_id <= MaxEnqueued
  /\ LET task == IF status_text # None
                   THEN MessageTask(next_id, "status_update", status_text, window_name,
                                    << >>, None, "text", thread_id)
                   ELSE MessageTask(next_id, "status_clear", None, None,
                                    << >>, None, "text", thread_id)
         st == put_nowait(St, task)
     IN queue' = st.queue /\ unfinished' = st.unfinished
  /\ next_id' = next_id + 1
  /\ ProducerFrame

\* await queue.join(): returns at once when nothing is unfinished, waits
\* for the finished event otherwise.
JoinCall ==
  /\ join_state = "none"
  /\ join_state' = IF unfinished > 0 THEN "waiting" ELSE "released"
  /\ join_before' = 1..(next_id - 1)
  /\ UNCHANGED <<queue, unfinished, w, tool_msg_ids, status_msg_info,
                 next_message_id, next_id, done, last_failed, ops,
                 storeVars, mergeVars, uiVars, laterVars>>

\* The caller of join() runs again.
JoinReturn ==
  /\ join_state = "released"
  /\ join_state' = "none"
  /\ join_before' = {}
  /\ UNCHANGED <<queue, unfinished, w, tool_msg_ids, status_msg_info,
                 next_message_id, next_id, done, last_failed, ops,
                 storeVars, mergeVars, uiVars, laterVars>>


(***************************************************************************)
(* Part 4.  Interactive prompts: the transcript handler (bot.py), the pane *)
(* poller (handlers/status_polling.py) and handle_interactive_ui           *)
(* (handlers/interactive_ui.py), for one chat.                             *)
(*                                                                         *)
(* The assistant writes events to its transcript and draws its pane; the   *)
(* monitor hands the events to handle_new_message one after the other; the *)
(* poller reads the pane in its own loop.  The window exists throughout.  *)
(* Consecutive awaits with no access to shared state in between            *)
(* (find_window_by_name, capture_pane, asyncio.sleep) are one step, taken  *)
(* when the pane is read.                                                  *)
(***************************************************************************)

\* The number of events the assistant writes.
MaxEvents == 2

IdleHandler == [pc |-> "idle", kind |-> None, window_name |-> None, thread_id |-> NoThread]

IdlePoller == [pc |-> "idle", window_name |-> None, thread_id |-> NoThread,
               pane_text |-> None, should_check_new_ui |-> TRUE]

\* A mutant of get_interactive_window: no topic is ever found in
\* interactive mode.
get_interactive_window_none(thread_id) == None

\* get_interactive_window
get_interactive_window(thread_id) ==
  IF ThreadOr0(thread_id) \in DOMAIN interactive_mode
    THEN interactive_mode[ThreadOr0(thread_id)] ELSE None

\* get_interactive_msg_id
get_interactive_msg_id(thread_id) ==
  IF ThreadOr0(thread_id) \in DOMAIN interactive_msgs
    THEN interactive_msgs[ThreadOr0(thread_id)] ELSE NoMessage

\* is_interactive_ui(pane_text)
is_interactive_ui(pane_text) == pane_text = "ui"

\* The text tasks that are queued or in progress and whose content has not
\* reached the chat (not in the code).
Undelivered ==
  LET shown == UNION {{ops[k].src[j] : j \in 1..Len(ops[k].src)} : k \in 1..Len(ops)}
      queued == {queue[k].ids[1] : k \in {j \in 1..Len(queue) :
                    queue[j].task_type = "content" /\ queue[j].content_type = "text"}}
      current == IF w.pc # "idle" /\ w.task.task_type = "content"
                    /\ w.task.content_type = "text"
                   THEN {w.task.ids[k] : k \in 1..Len(w.task.ids)} \ shown
                   ELSE {}
  IN queued \cup current

\* handle_new_message enqueues the message's content (one part): a text,
\* the tool_use of the interactive tool whose prompt was not sent, or its
\* tool_result.
HandlerEnqueue(kind, window_name, thread_id) ==
  /\ next_id <= MaxEnqueued
  /\ LET task == CASE kind = "text" ->
                       MessageTask(next_id, "content", None, window_name, <<1500>>,
                                   None, "text", thread_id)
                    [] kind = "ask" ->
                       MessageTask(next_id, "content", None, window_name, <<1500>>,
                                   "T1", "tool_use", thread_id)
                    [] OTHER ->
                       MessageTask(next_id, "content", None, window_name, <<1500>>,
                                   "T1", "tool_result", thread_id)
     IN queue' = Append(queue, task)
  /\ unfinished' = unfinished + 1
  /\ next_id' = next_id + 1

\* handle_interactive_ui from its pane capture to its next await: "false" (no
\* prompt in the pane), "ui_edit" (a keyboard message exists) or "ui_send".
handle_interactive_ui(thread_id) ==
  IF ~ is_interactive_ui(pane) THEN "false"
  ELSE IF get_interactive_msg_id(thread_id) # NoMessage THEN "ui_edit"
  ELSE "ui_send"

\* handle_interactive_ui: the keyboard message was sent.
KeyboardSent(window_name, thread_id) ==
  /\ interactive_msgs' = DictSet(interactive_msgs, ThreadOr0(thread_id), next_message_id)
  /\ interactive_mode' = DictSet(interactive_mode, ThreadOr0(thread_id), window_name)
  /\ next_message_id' = next_message_id + 1
  /\ overtaken' = overtaken \cup Undelivered

(* The assistant and the user. *)

\* The assistant writes a text, or the tool_use of AskUserQuestion and draws
\* the prompt; the prompt is its last event.
ClaudeEmit(kind) ==
  /\ Len(emitted) < MaxEvents
  /\ \A k \in 1..Len(emitted) : emitted[k] # "ask"
  /\ emitted' = Append(emitted, kind)
  /\ transcript' = Append(transcript, kind)
  /\ pane' = IF kind = "ask" THEN "ui"
             ELSE IF pane = "working" THEN "thinking" ELSE "working"
  /\ UNCHANGED <<interactive_msgs, interactive_mode, h, pl, overtaken>>
  /\ UNCHANGED <<storeVars, mergeVars, queueVars, laterVars>>

\* The user answers the prompt in the terminal: the prompt goes, and the
\* assistant writes the tool_result of its AskUserQuestion.
UserAnswers ==
  /\ pane = "ui"
  /\ pane' = "blank"
  /\ transcript' = Append(transcript, "result")
  /\ UNCHANGED <<interactive_msgs, interactive_mode, h, pl, emitted, overtaken>>
  /\ UNCHANGED <<storeVars, mergeVars, queueVars, laterVars>>

(* handle_new_message, for the one chat bound to the session. *)

HandlerFrame ==
  UNCHANGED <<w, tool_msg_ids, status_msg_info, done, last_failed, ops, join_before,
              pl, emitted, pane, storeVars, mergeVars, laterVars>>

\* What follows a prompt that was not sent (handled is False), and what a
\* message of any other kind does: the early-set mode is cleared; a keyboard
\* message on record is forgotten and deleted (the delete is awaited), and
\* the content is enqueued.
HandlerFallThrough(kind, window_name, thread_id, mode) ==
  IF ThreadOr0(thread_id) \in DOMAIN interactive_msgs
    THEN /\ interactive_msgs' = DictPop(interactive_msgs, ThreadOr0(thread_id))
         /\ interactive_mode' = DictPop(mode, ThreadOr0(thread_id))
         /\ h' = [h EXCEPT !.pc = "clear", !.kind = kind,
                           !.window_name = window_name, !.thread_id = thread_id]
         /\ UNCHANGED <<queue, unfinished, next_id>>
    ELSE /\ interactive_mode' = mode
         /\ HandlerEnqueue(kind, window_name, thread_id)
         /\ h' = IdleHandler
         /\ UNCHANGED interactive_msgs

\* handle_new_message up to its first await that suspends.  For the
\* tool_use of an interactive tool: set_interactive_mode, then queue.join().
HandleNewMessage(window_name, thread_id) ==
  /\ h.pc = "idle"
  /\ transcript # << >>
  /\ transcript' = Tail(transcript)
  /\ LET kind == Head(transcript) IN
       IF kind = "ask"
         THEN /\ interactive_mode' = DictSet(interactive_mode, ThreadOr0(thread_id),
                                             window_name)
              /\ h' = [pc |-> IF unfinished > 0 THEN "join" ELSE "ui_read",
                       kind |-> kind, window_name |-> window_name,
                       thread_id |-> thread_id]
              /\ join_state' = IF unfinished > 0 THEN "waiting" ELSE join_state
              /\ UNCHANGED <<interactive_msgs, queue, unfinished, next_id>>
         ELSE /\ HandlerFallThrough(kind, window_name, thread_id, interactive_mode)
              /\ UNCHANGED join_state
  /\ UNCHANGED <<next_message_id, overtaken>>
  /\ HandlerFrame

\* queue.join() returns; asyncio.sleep(0.3) and the pane capture follow.
HandlerJoined ==
  /\ h.pc = "join"
  /\ join_state = "released"
  /\ join_state' = "none"
  /\ h' = [h EXCEPT !.pc = "ui_read"]
  /\ UNCHANGED <<interactive_msgs, interactive_mode, transcript, overtaken,
                 queue, unfinished, next_id, next_message_id>>
  /\ HandlerFrame

\* handle_interactive_ui has the pane: without a prompt in it the message is
\* handled as any other.
HandlerReadPane ==
  /\ h.pc = "ui_read"
  /\ LET r == handle_interactive_ui(h.thread_id) IN
       IF r = "false"
         THEN HandlerFallThrough(h.kind, h.window_name, h.thread_id,
                                 DictPop(interactive_mode, ThreadOr0(h.thread_id)))
         ELSE /\ h' = [h EXCEPT !.pc = r]
              /\ UNCHANGED <<interactive_msgs, interactive_mode, queue, unfinished, next_id>>
  /\ UNCHANGED <<transcript, overtaken, join_state, next_message_id>>
  /\ HandlerFrame

\* rate_limit_send_message of the keyboard message returns: sent, RetryAfter
\* (which leaves handle_new_message), or given up (handled is False).
HandlerSendUI(o) ==
  /\ h.pc = "ui_send"
  /\ CASE o = "ok" ->
            /\ KeyboardSent(h.window_name, h.thread_id)
            /\ h' = IdleHandler
            /\ UNCHANGED <<queue, unfinished, next_id>>
       [] o = "RetryAfter" ->
            /\ h' = IdleHandler
            /\ UNCHANGED <<interactive_msgs, interactive_mode, next_message_id, overtaken,
                           queue, unfinished, next_id>>
       [] OTHER ->
            /\ HandlerFallThrough(h.kind, h.window_name, h.thread_id,
                                  DictPop(interactive_mode, ThreadOr0(h.thread_id)))
            /\ UNCHANGED <<next_message_id, overtaken>>
  /\ UNCHANGED <<transcript, join_state>>
  /\ HandlerFrame

\* The edit of the existing keyboard message returns: handled is True also
\* when the edit failed.
HandlerEditUI(o) ==
  /\ h.pc = "ui_edit"
  /\ interactive_mode' = IF o = "ok"
                           THEN DictSet(interactive_mode, ThreadOr0(h.thread_id),
                                        h.window_name)
                           ELSE interactive_mode
  /\ h' = IdleHandler
  /\ UNCHANGED <<interactive_msgs, transcript, overtaken, join_state,
                 queue, unfinished, next_id, next_message_id>>
  /\ HandlerFrame

\* clear_interactive_msg's delete returns (errors ignored); the content is
\* enqueued.
HandlerClear ==
  /\ h.pc = "clear"
  /\ HandlerEnqueue(h.kind, h.window_name, h.thread_id)
  /\ h' = IdleHandler
  /\ UNCHANGED <<interactive_msgs, interactive_mode, transcript, overtaken, join_state,
                 next_message_id>>
  /\ HandlerFrame

(* status_poll_loop, for the one binding. *)

PollerFrame ==
  UNCHANGED <<w, tool_msg_ids, status_msg_info, done, last_failed, ops, join_before,
              join_state, h, transcript, emitted, pane, storeVars, mergeVars,
              laterVars>>

\* The normal status line check of update_status_message, on the pane text
\* captured before: a status line is enqueued.
PollStatusLine(pane_text, window_name, thread_id) ==
  IF parse_status_line(pane_text) # None
    THEN /\ next_id <= MaxEnqueued
         /\ queue' = Append(queue, MessageTask(next_id, "status_update",
                                               parse_status_line(pane_text),
                                               window_name, << >>, None, "text", thread_id))
         /\ unfinished' = unfinished + 1
         /\ next_id' = next_id + 1
    ELSE UNCHANGED <<queue, unfinished, next_id>>

\* One tick for the binding, up to the pane capture of
\* update_status_message: nothing is done while the queue holds a task.
PollTick(window_name, thread_id) ==
  /\ pl.pc = "idle"
  /\ queue = << >>
  /\ pl' = [IdlePoller EXCEPT !.pc = "read", !.window_name = window_name,
                              !.thread_id = thread_id]
  /\ UNCHANGED <<interactive_msgs, interactive_mode, overtaken,
                 queue, unfinished, next_id, next_message_id>>
  /\ PollerFrame

\* update_status_message has the pane, lines 139-187.
PollRead ==
  /\ pl.pc = "read"
  /\ LET tid == ThreadOr0(pl.thread_id)
         interactive_window == get_interactive_window(pl.thread_id)
     IN CASE interactive_window = pl.window_name /\ is_interactive_ui(pane) ->
               \* the handler is about to send, or the prompt is refreshed
               /\ pl' = IF get_interactive_msg_id(pl.thread_id) = NoMessage
                          THEN IdlePoller ELSE [pl EXCEPT !.pc = "ui_read"]
               /\ UNCHANGED <<interactive_msgs, interactive_mode, queue, unfinished, next_id>>
          [] interactive_window # None /\ tid \in DOMAIN interactive_msgs ->
               \* the prompt is gone, or the mode is another window's:
               \* clear_interactive_msg with a message to delete
               /\ interactive_msgs' = DictPop(interactive_msgs, tid)
               /\ interactive_mode' = DictPop(interactive_mode, tid)
               /\ pl' = [pl EXCEPT !.pc = "clear", !.pane_text = pane,
                                    !.should_check_new_ui =
                                       (interactive_window # pl.window_name)]
               /\ UNCHANGED <<queue, unfinished, next_id>>
          [] interactive_window # None ->
               \* the same without a message; should_check_new_ui is False
               \* for this window's mode, True for another window's
               /\ interactive_mode' = DictPop(interactive_mode, tid)
               /\ UNCHANGED interactive_msgs
               /\ IF interactive_window # pl.window_name /\ is_interactive_ui(pane)
                    THEN /\ pl' = [pl EXCEPT !.pc = "ui_read"]
                         /\ UNCHANGED <<queue, unfinished, next_id>>
                    ELSE /\ pl' = IdlePoller
                         /\ PollStatusLine(pane, pl.window_name, pl.thread_id)
          [] OTHER ->
               \* no interactive mode: a prompt in the pane is sent
               /\ UNCHANGED <<interactive_msgs, interactive_mode>>
               /\ IF is_interactive_ui(pane)
                    THEN /\ pl' = [pl EXCEPT !.pc = "ui_read"]
                         /\ UNCHANGED <<queue, unfinished, next_id>>
                    ELSE /\ pl' = IdlePoller
                         /\ PollStatusLine(pane, pl.window_name, pl.thread_id)
  /\ UNCHANGED <<overtaken, next_message_id>>
  /\ PollerFrame

\* clear_interactive_msg's delete returns (errors ignored): for this
\* window's mode the status line check follows, for another window's the
\* check for a new prompt comes first.
PollClear ==
  /\ pl.pc = "clear"
  /\ IF pl.should_check_new_ui /\ is_interactive_ui(pl.pane_text)
       THEN /\ pl' = [pl EXCEPT !.pc = "ui_read"]
            /\ UNCHANGED <<queue, unfinished, next_id>>
       ELSE /\ pl' = IdlePoller
            /\ PollStatusLine(pl.pane_text, pl.window_name, pl.thread_id)
  /\ UNCHANGED <<interactive_msgs, interactive_mode, overtaken, next_message_id>>
  /\ PollerFrame

\* handle_interactive_ui, called by the poller, has the pane.
PollReadUI ==
  /\ pl.pc = "ui_read"
  /\ LET r == handle_interactive_ui(pl.thread_id) IN
       pl' = IF r = "false" THEN IdlePoller ELSE [pl EXCEPT !.pc = r]
  /\ UNCHANGED <<interactive_msgs, interactive_mode, overtaken,
                 queue, unfinished, next_id, next_message_id>>
  /\ PollerFrame

\* rate_limit_send_message of the keyboard message returns; RetryAfter is
\* caught and logged by the loop.
PollSendUI(o) ==
  /\ pl.pc = "ui_send"
  /\ IF o = "ok"
       THEN KeyboardSent(pl.window_name, pl.thread_id)
       ELSE UNCHANGED <<interactive_msgs, interactive_mode, next_message_id, overtaken>>
  /\ pl' = IdlePoller
  /\ UNCHANGED <<queue, unfinished, next_id>>
  /\ PollerFrame

\* The edit of the existing keyboard message returns.
PollEditUI(o) ==
  /\ pl.pc = "ui_edit"
  /\ interactive_mode' = IF o = "ok"
                           THEN DictSet(interactive_mode, ThreadOr0(pl.thread_id),
                                        pl.window_name)
                           ELSE interactive_mode
  /\ pl' = IdlePoller
  /\ UNCHANGED <<interactive_msgs, overtaken, queue, unfinished, next_id, next_message_id>>
  /\ PollerFrame


(***************************************************************************)
(* Part 5.  Transcript parser.  transcript_parser.py is not among the      *)
(* sources: parse_entries is modelled from section 4.2 of the              *)
(* specification and from tests/test_transcript_parser.py.  The text of an *)
(* event is left out; an event keeps the number of the record it comes     *)
(* from.                                                                   *)
(***************************************************************************)

\* The number of records of a parsed sequence.
MaxRecords == 3

\* A content block of a record: a text, a tool_use (id, tool name) or a
\* tool_result (id).
Block(type, id, name) == [type |-> type, id |-> id, name |-> name]

\* A transcript record: type is "user", "assistant" or "summary"; src is its
\* number (not in the code).
Record(type, blocks, src) == [type |-> type, blocks |-> blocks, src |-> src]

\* ParsedEntry
ParsedEntry(role, content_type, tool_use_id, tool_name, src) ==
  [role |-> role, content_type |-> content_type, tool_use_id |-> tool_use_id,
   tool_name |-> tool_name, src |-> src]

\* The emission rules for one block.  acc holds the events so far and the
\* pending map, a sequence of (id, name) in insertion order.  A tool_use is
\* inserted in the pending map and emitted, after its plan when the tool is
\* ExitPlanMode; a tool_result is emitted and its id removed when the id is
\* pending, and dropped otherwise.
ParseBlock(acc, role, b, src) ==
  LET has == \E k \in 1..Len(acc.pending) : acc.pending[k].id = b.id
      name == (CHOOSE e \in {acc.pending[k] : k \in 1..Len(acc.pending)} : e.id = b.id).name
      set == IF has
               THEN [k \in 1..Len(acc.pending) |->
                       IF acc.pending[k].id = b.id
                         THEN [id |-> b.id, name |-> b.name] ELSE acc.pending[k]]
               ELSE Append(acc.pending, [id |-> b.id, name |-> b.name])
      pop == SelectSeq(acc.pending, LAMBDA e : e.id # b.id)
      plan == IF b.name = "ExitPlanMode"
                THEN <<ParsedEntry("assistant", "text", None, None, src)>> ELSE << >>
  IN CASE b.type = "text" ->
            [acc EXCEPT !.events = Append(@, ParsedEntry(role, "text", None, None, src))]
       [] b.type = "tool_use" ->
            [events |-> acc.events \o plan
                          \o <<ParsedEntry("assistant", "tool_use", b.id, b.name, src)>>,
             pending |-> set]
       [] b.type = "tool_result" /\ has ->
            [events |-> Append(acc.events,
                               ParsedEntry("assistant", "tool_result", b.id, name, src)),
             pending |-> pop]
       [] OTHER -> acc

\* The blocks of one record, in order; a record that is neither a user nor
\* an assistant record is skipped.
RECURSIVE ParseBlocks(_, _, _)
ParseBlocks(acc, rec, k) ==
  IF rec.type \notin {"user", "assistant"} \/ k > Len(rec.blocks) THEN acc
  ELSE ParseBlocks(ParseBlock(acc, rec.type, rec.blocks[k], rec.src), rec, k + 1)

\* The records, in order.
RECURSIVE ParseRecords(_, _, _)
ParseRecords(acc, records, k) ==
  IF k > Len(records) THEN acc
  ELSE ParseRecords(ParseBlocks(acc, records[k], 1), records, k + 1)

\* TranscriptParser.parse_entries(records, pending_tools=carry).  In streaming
\* mode the pending map is the caller's and the tools still pending are returned;
\* in one-shot mode (pending_tools=None) the map starts empty and the tools
\* still pending at the end are flushed as tool_use events of their own.
parse_entries(records, carry, oneshot) ==
  LET r == ParseRecords([events |-> << >>,
                         pending |-> IF oneshot THEN << >> ELSE carry],
                        records, 1)
      flush == [k \in 1..Len(r.pending) |->
                  ParsedEntry("assistant", "tool_use", r.pending[k].id,
                              r.pending[k].name, 0)]
  IN IF oneshot THEN [events |-> r.events \o flush, pending |-> << >>] ELSE r

(***************************************************************************)
(* Part 6.  Transcript monitor (session_monitor.py).                       *)
(*                                                                         *)
(* The monitor loop is one coroutine; an action is what it does between    *)
(* two of its awaits that touch the files: the read of the session map,    *)
(* the scan of the projects, the opening of a transcript, the read of its  *)
(* lines, a call of the callback.  The assistant appends records to the    *)
(* transcripts and the hook rewrites the session map at any time.          *)
(* MonitorState (monitor_state.py) is not among the sources: its           *)
(* operations are modelled from the specification and from                 *)
(* tests/test_monitor_state.py.                                            *)
(***************************************************************************)

\* The number of records ever written to the transcripts.
MaxWritten == 2

\* The bot is restarted at most MaxRestarts times.
MaxRestarts == 1

Sessions == {"s1", "s2"}

\* The size in bytes of a file's content; a record is one line of len bytes.
RECURSIVE FileSize(_)
FileSize(recs) == IF recs = << >> THEN 0 ELSE Head(recs).len + FileSize(Tail(recs))

\* The lines read from a byte offset to the end of the file, as parse_line
\* returns them: the rest of a line the offset falls into is no JSON and
\* gives no record.
RECURSIVE ReadFrom(_, _)
ReadFrom(recs, offset) ==
  IF recs = << >> THEN << >>
  ELSE IF offset <= 0 THEN recs
  ELSE ReadFrom(Tail(recs), offset - Head(recs).len)

\* A mutant of Tell: the offset is not moved by the read.
Tell_stale(recs, offset) == offset

\* f.tell() after the lines were read from offset to the end of the file.
Tell(recs, offset) == IF offset > FileSize(recs) THEN offset ELSE FileSize(recs)

\* The values of a dict.
Values(d) == {d[k] : k \in DOMAIN d}

\* dict.get(key, default)
DictGet(d, k, default) == IF k \in DOMAIN d THEN d[k] ELSE default

\* The monitor loop before its first step.
StartMonitor ==
  [pc |-> "start", active |-> {}, todo |-> << >>, sid |-> None, cur_mtime |-> 0,
   new_messages |-> << >>, reset |-> FALSE, last_read |-> << >>]

\* The monitor's own state, as one value.
MonSt ==
  [tracked |-> tracked_sessions, persisted |-> persisted, dirty |-> dirty,
   mtimes |-> file_mtimes, pending |-> pending_tools, mon |-> mon]

MonCommit(m) ==
  /\ tracked_sessions' = m.tracked
  /\ persisted' = m.persisted
  /\ dirty' = m.dirty
  /\ file_mtimes' = m.mtimes
  /\ pending_tools' = m.pending
  /\ mon' = m.mon

\* MonitorState.update_session
update_session(m, sid, offset) ==
  [m EXCEPT !.tracked = DictSet(@, sid, offset), !.dirty = TRUE]

\* MonitorState.save_if_dirty
save_if_dirty(m) ==
  IF m.dirty THEN [m EXCEPT !.persisted = m.tracked, !.dirty = FALSE] ELSE m

\* The cleanup of _cleanup_all_stale_sessions and _detect_and_cleanup_changes:
\* remove_session and the pop of the cached mtime for each session, then
\* save_if_dirty.
RemoveSessions(m, sids) ==
  IF sids = {} THEN m
  ELSE save_if_dirty(
         [m EXCEPT !.tracked = [s \in DOMAIN @ \ sids |-> @[s]],
                   !.mtimes = [s \in DOMAIN @ \ sids |-> @[s]],
                   !.dirty = @ \/ (sids \cap DOMAIN m.tracked # {})])

\* NewMessage, of a parsed entry.
NewMessage(session_id, e) ==
  [session_id |-> session_id, role |-> e.role, content_type |-> e.content_type,
   tool_use_id |-> e.tool_use_id, tool_name |-> e.tool_name, src |-> e.src]

\* A mutant of CarryParse: the entry of a session with no tool pending any
\* more is not removed.
CarryParse_keeps_stale(m, sid, new_entries) ==
  LET carry == DictGet(m.pending, sid, << >>)
      r == parse_entries(new_entries, carry, FALSE)
  IN [m EXCEPT !.pending = IF r.pending # << >> THEN DictSet(@, sid, r.pending) ELSE @,
               !.mon.new_messages =
                  @ \o [k \in 1..Len(r.events) |-> NewMessage(sid, r.events[k])]]

\* A mutant of CarryParse: the tools still pending are not kept.
CarryParse_forgets(m, sid, new_entries) ==
  LET r == parse_entries(new_entries, << >>, FALSE)
  IN [m EXCEPT !.pending = DictPop(@, sid),
               !.mon.new_messages =
                  @ \o [k \in 1..Len(r.events) |-> NewMessage(sid, r.events[k])]]

\* check_for_updates parses the new entries of a session with the pending
\* tools carried over from its last call, keeps the tools still pending, and
\* adds a message for each parsed entry (config.show_user_messages is True).
CarryParse(m, sid, new_entries) ==
  LET carry == DictGet(m.pending, sid, << >>)
      r == parse_entries(new_entries, carry, FALSE)
  IN [m EXCEPT !.pending = IF r.pending # << >> THEN DictSet(@, sid, r.pending)
                           ELSE DictPop(@, sid),
               !.mon.new_messages =
                  @ \o [k \in 1..Len(r.events) |-> NewMessage(sid, r.events[k])]]

\* A mutant of CheckSessions: a session that is not tracked starts being
\* tracked at the start of its file.
RECURSIVE CheckSessions_from_start(_)
CheckSessions_from_start(m) ==
  IF m.mon.todo = << >>
    THEN [save_if_dirty(m) EXCEPT
            !.mon.pc = IF m.mon.new_messages = << >> THEN "reconcile" ELSE "deliver",
            !.mon.sid = None]
  ELSE LET sid == Head(m.mon.todo)
           rest == [m EXCEPT !.mon.todo = Tail(@)]
       IN IF sid \notin m.mon.active THEN CheckSessions_from_start(rest)
          ELSE IF sid \notin DOMAIN m.tracked
            THEN CheckSessions_from_start(update_session(rest, sid, 0))
          ELSE IF files[sid].mtime <= DictGet(m.mtimes, sid, 0)
            THEN CheckSessions_from_start(rest)
          ELSE [rest EXCEPT !.mon.pc = "open", !.mon.sid = sid,
                            !.mon.cur_mtime = files[sid].mtime]

\* The loop of check_for_updates over the scanned sessions, up to its next
\* await.  A session that is not in the session map is skipped; one that is
\* not tracked starts being tracked at the end of its file; one whose mtime
\* is not newer than the cached one is skipped; for another the file is
\* opened.  After the last session the state is saved, and the callback is
\* called with the first message, or the loop sleeps.
RECURSIVE CheckSessions(_)
CheckSessions(m) ==
  IF m.mon.todo = << >>
    THEN [save_if_dirty(m) EXCEPT
            !.mon.pc = IF m.mon.new_messages = << >> THEN "reconcile" ELSE "deliver",
            !.mon.sid = None]
  ELSE LET sid == Head(m.mon.todo)
           rest == [m EXCEPT !.mon.todo = Tail(@)]
       IN IF sid \notin m.mon.active THEN CheckSessions(rest)
          ELSE IF sid \notin DOMAIN m.tracked
            THEN CheckSessions(
                   [update_session(rest, sid, FileSize(files[sid].recs)) EXCEPT
                      !.mtimes = DictSet(@, sid, files[sid].mtime)])
          ELSE IF files[sid].mtime <= DictGet(m.mtimes, sid, 0) THEN CheckSessions(rest)
          ELSE [rest EXCEPT !.mon.pc = "open", !.mon.sid = sid,
                            !.mon.cur_mtime = files[sid].mtime]

\* What the monitor's steps leave alone.
MonFrame ==
  UNCHANGED <<session_map, files, truncated, next_rec, restarts, parseVars,
              storeVars, mergeVars, queueVars, uiVars, restVars>>

\* _cleanup_all_stale_sessions: the tracked sessions that are not in the
\* session map are removed.
MonStartupCleanup ==
  /\ mon.pc = "start"
  /\ LET active == Values(session_map)
         m == RemoveSessions(MonSt, DOMAIN tracked_sessions \ active)
     IN MonCommit([m EXCEPT !.mon.pc = "init_map", !.mon.active = active])
  /\ UNCHANGED <<last_session_map, delivered>>
  /\ MonFrame

\* _monitor_loop: self._last_session_map = await self._load_current_session_map()
MonInitMap ==
  /\ mon.pc = "init_map"
  /\ last_session_map' = session_map
  /\ mon' = [mon EXCEPT !.pc = "reconcile"]
  /\ UNCHANGED <<tracked_sessions, persisted, dirty, file_mtimes, pending_tools, delivered>>
  /\ MonFrame

\* _detect_and_cleanup_changes: the sessions of the windows that left the
\* map or changed their session are removed.
MonReconcile ==
  /\ mon.pc = "reconcile"
  /\ LET current_map == session_map
         changed == {last_session_map[wn] : wn \in
                       {x \in DOMAIN last_session_map \cap DOMAIN current_map :
                          current_map[x] # last_session_map[x]}}
         deleted == {last_session_map[wn] : wn \in
                       DOMAIN last_session_map \ DOMAIN current_map}
         m == RemoveSessions(MonSt, changed \cup deleted)
     IN /\ MonCommit([m EXCEPT !.mon.pc = "scan", !.mon.active = Values(current_map),
                               !.mon.new_messages = << >>])
        /\ last_session_map' = current_map
  /\ UNCHANGED delivered
  /\ MonFrame

\* scan_projects returns the session files, and the loop over them starts.
MonScan ==
  /\ mon.pc = "scan"
  /\ MonCommit(CheckSessions([MonSt EXCEPT !.mon.todo = <<"s1", "s2">>]))
  /\ UNCHANGED <<last_session_map, delivered>>
  /\ MonFrame

\* A mutant of TruncationReset: the offset is kept.
TruncationReset_never(offset, file_size) == offset

\* _read_new_lines: an offset beyond the size of the file is reset to 0.
TruncationReset(offset, file_size) == IF offset > file_size THEN 0 ELSE offset

\* _read_new_lines: the file is opened and its size taken; an offset beyond
\* the size is reset to 0.
MonOpen ==
  /\ mon.pc = "open"
  /\ LET sid == mon.sid
         file_size == FileSize(files[sid].recs)
     IN /\ tracked_sessions' =
             DictSet(tracked_sessions, sid, TruncationReset(tracked_sessions[sid], file_size))
        /\ mon' = [mon EXCEPT !.pc = "read", !.reset = tracked_sessions[sid] > file_size]
  /\ UNCHANGED <<persisted, dirty, file_mtimes, pending_tools, last_session_map, delivered>>
  /\ MonFrame

\* _read_new_lines reads the lines from the offset and moves the offset;
\* check_for_updates caches the mtime, parses the entries, updates the
\* session and goes on with the next session.
MonReadLines ==
  /\ mon.pc = "read"
  /\ LET sid == mon.sid
         recs == files[sid].recs
         offset == tracked_sessions[sid]
         new_entries == ReadFrom(recs, offset)
         m1 == [MonSt EXCEPT !.mtimes = DictSet(@, sid, mon.cur_mtime),
                             !.mon.last_read = new_entries]
         m2 == update_session(CarryParse(m1, sid, new_entries), sid, Tell(recs, offset))
     IN MonCommit(CheckSessions(m2))
  /\ UNCHANGED <<last_session_map, delivered>>
  /\ MonFrame

\* await self._message_callback(msg), for the next message; after the last
\* one the loop sleeps.
MonDeliver ==
  /\ mon.pc = "deliver"
  /\ delivered' = Append(delivered, [msg |-> Head(mon.new_messages), run |-> restarts])
  /\ mon' = [mon EXCEPT !.new_messages = Tail(@),
                        !.pc = IF Tail(mon.new_messages) = << >> THEN "reconcile" ELSE @]
  /\ UNCHANGED <<tracked_sessions, persisted, dirty, file_mtimes, pending_tools,
                 last_session_map>>
  /\ MonFrame

\* The bot is stopped and started again: SessionMonitor.__init__ loads the
\* persisted state, and everything else starts empty.
MonRestart ==
  /\ mon.pc # "start"
  /\ restarts < MaxRestarts
  /\ restarts' = restarts + 1
  /\ tracked_sessions' = persisted
  /\ dirty' = FALSE
  /\ file_mtimes' = EmptyDict
  /\ pending_tools' = EmptyDict
  /\ last_session_map' = EmptyDict
  /\ mon' = StartMonitor
  /\ UNCHANGED <<persisted, delivered>>
  /\ UNCHANGED <<session_map, files, truncated, next_rec, parseVars,
                 storeVars, mergeVars, queueVars, uiVars, restVars>>

(* The assistant and the hook. *)

\* What the environment's steps leave alone.
EnvFrame ==
  UNCHANGED <<tracked_sessions, persisted, dirty, file_mtimes, pending_tools,
              last_session_map, mon, delivered, restarts, parseVars,
              storeVars, mergeVars, queueVars, uiVars, topicVars, moreVars>>

\* The assistant appends a record to a transcript, as a whole line.  The
\* mtime moves on, or stays when the write falls in the same tick of the
\* file system's clock as the one before.
AppendRecord(sid, type, blocks, len, tick) ==
  /\ next_rec <= MaxWritten
  /\ tick = 0 => files[sid].recs # << >>
  /\ files' = [files EXCEPT ![sid] =
                 [recs |-> Append(@.recs, [type |-> type, blocks |-> blocks,
                                           src |-> next_rec, len |-> len]),
                  mtime |-> @.mtime + tick]]
  /\ next_rec' = next_rec + 1
  /\ UNCHANGED <<session_map, truncated, cleared>>
  /\ EnvFrame

\* A transcript is truncated to length 0.
TruncateFile(sid) ==
  /\ files[sid].recs # << >>
  /\ files' = [files EXCEPT ![sid] = [recs |-> << >>, mtime |-> @.mtime + 1]]
  /\ truncated' = truncated \cup {sid}
  /\ UNCHANGED <<session_map, next_rec, cleared>>
  /\ EnvFrame

\* The hook writes the session of a window into the session map: a session
\* id the entry of the window did not hold.
HookWrites(window_name, sid) ==
  /\ DictGet(session_map, window_name, None) # sid
  /\ session_map' = DictSet(session_map, window_name, sid)
  /\ cleared' = cleared \ {window_name}
  /\ UNCHANGED <<files, truncated, next_rec>>
  /\ EnvFrame

\* The entry of a window leaves the session map.
MapEntryRemoved(window_name) ==
  /\ window_name \in DOMAIN session_map
  /\ session_map' = DictPop(session_map, window_name)
  /\ UNCHANGED <<files, truncated, next_rec, cleared>>
  /\ EnvFrame

(***************************************************************************)
(* Part 7.  Topics and windows: the update handlers of bot.py, the session *)
(* map as session.py loads it, and the stale-binding pass of the poller.   *)
(*                                                                         *)
(* The application handles updates one by one, so one handler runs at a    *)
(* time (th); the poller and the monitor loop are tasks of their own, and  *)
(* the hook and the multiplexer's windows change at any time.  A step is   *)
(* the code between two awaits.                                            *)
(***************************************************************************)

\* No update is being handled.  (raised: the last handler ended with an
\* exception it did not catch.)
NoUpdate ==
  [pc |-> "idle", chat |-> 0, thread |-> NoThread, wname |-> None, cmd |-> None,
   raised |-> FALSE]

\* The poller sleeps.
PollerSleeps == [pc |-> "idle", todo |-> {}, cur |-> <<0, NoThread, None>>]

\* context.user_data with no STATE_KEY and no _pending_thread_id.
NoUserData == [state |-> None, pending_thread_id |-> NoThread, pending_chat |-> 0]

\* What the steps of this part leave alone: the state of the other parts,
\* and, but for a topic's cleanup, the handlers' dictionaries.
TopicInner ==
  UNCHANGED <<files, tracked_sessions, persisted, dirty, file_mtimes, pending_tools,
              last_session_map, mon, delivered, truncated, next_rec, restarts,
              parseVars, mergeVars, queueVars, uiVars>>

TopicOuter == TopicInner /\ UNCHANGED partVars

TopicFrame == TopicOuter /\ UNCHANGED moreVars

\* What a step of a handler that only moves on leaves alone.
HandlerMoves ==
  /\ UNCHANGED <<mux_windows, window_states, user_data, sp, notified, cleaned, cleared,
                 session_map, storeVars>>
  /\ TopicFrame

(* forward_command_handler *)

\* The handler starts: resolve_window_for_thread; an unbound topic gets a
\* reply and the handler ends.
ForwardStart(chat_id, thread_id, cc_slash) ==
  /\ th.pc = "idle"
  /\ LET wname == get_window_for_thread(chat_id, thread_id)
     IN th' = IF wname = None THEN NoUpdate
              ELSE [NoUpdate EXCEPT !.pc = "fc_find", !.chat = chat_id,
                                       !.thread = thread_id, !.wname = wname,
                                       !.cmd = cc_slash]
  /\ HandlerMoves

\* find_window_by_name returned.
ForwardFind ==
  /\ th.pc = "fc_find"
  /\ th' = IF th.wname \in mux_windows THEN [th EXCEPT !.pc = "fc_send"] ELSE NoUpdate
  /\ HandlerMoves

\* What a step that sends keys leaves alone.
SendFrame ==
  /\ UNCHANGED <<mux_windows, window_states, user_data, sp, notified, cleaned, cleared,
                 session_map, storeVars>>
  /\ TopicInner
  /\ UNCHANGED <<zVars, hookVars, diskVars, refused, offsetVars, tailVars>>

\* send_to_window returned: it succeeds only for a window that exists, and
\* then the keys went to the window.
ForwardSend(success) ==
  /\ th.pc = "fc_send"
  /\ success => th.wname \in mux_windows
  /\ th' = IF success THEN [th EXCEPT !.pc = "fc_reply"] ELSE NoUpdate
  /\ keys_sent' = IF success THEN keys_sent \cup {<<th.chat, th.thread, th.wname>>}
                  ELSE keys_sent
  /\ UNCHANGED mem
  /\ SendFrame

\* SessionManager.clear_window_session
clear_window_session(window_name) ==
  window_states' = DictSet(window_states, window_name, "")

\* The reply was sent; after /clear the session of the window is cleared.
ForwardReplied ==
  /\ th.pc = "fc_reply"
  /\ IF th.cmd = "/clear"
       THEN clear_window_session(th.wname) /\ cleared' = cleared \cup {th.wname}
       ELSE UNCHANGED <<window_states, cleared>>
  /\ th' = NoUpdate
  /\ UNCHANGED <<mux_windows, user_data, sp, notified, cleaned, session_map, storeVars>>
  /\ TopicFrame

\* SessionManager.load_session_map, which the monitor loop calls at every
\* poll: the window state of every window of the map takes the session id
\* of its entry, and the states of the windows that are not in the map are
\* removed.  (The hook writes no empty session id.)
LoadSessionMap ==
  /\ window_states' =
       [wn \in DOMAIN session_map |->
          IF DictGet(window_states, wn, "") # session_map[wn]
            THEN session_map[wn] ELSE window_states[wn]]
  /\ UNCHANGED <<mux_windows, user_data, th, sp, notified, cleaned, cleared,
                 session_map, storeVars>>
  /\ TopicFrame

(* text_handler *)

\* The handler starts.  In the awaiting-path state the text is the reply to
\* the directory prompt; else an unbound topic is prompted for a directory,
\* and for a bound topic the window is looked up.
TextStart(chat_id, thread_id, is_dir) ==
  /\ th.pc = "idle"
  /\ IF user_data.state = "awaiting_path"
       THEN /\ user_data' = [user_data EXCEPT !.state = None]
            /\ th' = IF is_dir
                       THEN [NoUpdate EXCEPT !.pc = "rp_create", !.chat = chat_id,
                                                !.thread = user_data.pending_thread_id]
                       ELSE NoUpdate
       ELSE LET wname == get_window_for_thread(chat_id, thread_id)
            IN IF wname = None
                 THEN /\ user_data' = [state |-> "awaiting_path",
                                       pending_thread_id |-> thread_id,
                                       pending_chat |-> chat_id]
                      /\ th' = NoUpdate
                 ELSE /\ UNCHANGED user_data
                      /\ th' = [NoUpdate EXCEPT !.pc = "tx_find", !.chat = chat_id,
                                                   !.thread = thread_id, !.wname = wname]
  /\ UNCHANGED <<mux_windows, window_states, sp, notified, cleaned, cleared,
                 session_map, storeVars>>
  /\ TopicFrame

\* find_window_by_name returned: a binding whose window is gone is removed
\* and the user is told; else the text is forwarded next.
TextFind ==
  /\ th.pc = "tx_find"
  /\ IF th.wname \notin mux_windows
       THEN unbind_thread(th.chat, th.thread) /\ th' = [th EXCEPT !.pc = "tx_notify"]
       ELSE UNCHANGED storeVars /\ th' = [th EXCEPT !.pc = "tx_send"]
  /\ UNCHANGED <<mux_windows, window_states, user_data, sp, notified, cleaned, cleared,
                 session_map>>
  /\ TopicFrame

\* The typing action was sent, the status entry of the topic is forgotten,
\* and send_to_window(wname, text) returned: it succeeds only for a window
\* that exists, and then the text went to the window, literally and
\* followed by Enter.  (The refresh of an interactive prompt that follows is
\* not modelled.)
TextSend(success) ==
  /\ th.pc = "tx_send"
  /\ success => th.wname \in mux_windows
  /\ mem' = [mem EXCEPT !.status_msg_info = @ \ {<<th.chat, th.thread>>}]
  /\ keys_sent' = IF success THEN keys_sent \cup {<<th.chat, th.thread, th.wname>>}
                  ELSE keys_sent
  /\ th' = NoUpdate
  /\ SendFrame

\* The reply "Window ... no longer exists. Binding removed." was sent.
TextNotified ==
  /\ th.pc = "tx_notify"
  /\ notified' = [notified EXCEPT ![<<th.chat, th.thread>>] = @ + 1]
  /\ th' = NoUpdate
  /\ UNCHANGED <<mux_windows, window_states, user_data, sp, cleaned, cleared,
                 session_map, storeVars>>
  /\ TopicFrame

\* create_window returned.  It failed (created = None), or made a window
\* with a name no window had; then text_handler calls
\* wait_for_session_map_entry(created_wname, exclude_session_id=old_sid),
\* and the call raises TypeError, because the function takes window_name,
\* timeout and interval only: the handler ends there.
ReplyCreate(created) ==
  /\ th.pc = "rp_create"
  /\ created # None => created \notin mux_windows
  /\ IF created # None
       THEN /\ mux_windows' = mux_windows \cup {created}
            /\ th' = [NoUpdate EXCEPT !.raised = TRUE]
            /\ UNCHANGED user_data
       ELSE /\ UNCHANGED mux_windows
            /\ th' = NoUpdate
            /\ user_data' = [user_data EXCEPT !.pending_thread_id = NoThread,
                                              !.pending_chat = 0]
  /\ UNCHANGED <<window_states, sp, notified, cleaned, cleared, session_map, storeVars>>
  /\ TopicFrame

(* clear_topic_state (handlers/cleanup.py) *)

\* The dictionaries, all empty.
EmptyMem ==
  [status_msg_info |-> {}, tool_msg_ids |-> {}, interactive_msgs |-> {},
   interactive_mode |-> {}, suggestion_msgs |-> {}, suggestion_text |-> {}]

\* _status_msg_info.pop((user_id, thread_id or 0), None)
clear_status_msg_info(m, user_id, thread_id) ==
  [m EXCEPT !.status_msg_info = @ \ {<<user_id, thread_id>>}]

\* The keys (tool_use_id, user_id, thread_id_or_0) of the user and thread
\* are removed.
clear_tool_msg_ids_for_topic(m, user_id, thread_id) ==
  [m EXCEPT !.tool_msg_ids =
     {key \in @ : ~(key[2] = user_id /\ key[3] = thread_id)}]

\* clear_interactive_msg, up to its await: both entries are popped.
clear_interactive_msg(m, chat_id, thread_id) ==
  [m EXCEPT !.interactive_msgs = @ \ {<<chat_id, thread_id>>},
            !.interactive_mode = @ \ {<<chat_id, thread_id>>}]

\* clear_suggestion, up to its await: both entries are popped.
clear_suggestion(m, chat_id, thread_id) ==
  [m EXCEPT !.suggestion_msgs = @ \ {<<chat_id, thread_id>>},
            !.suggestion_text = @ \ {<<chat_id, thread_id>>}]

\* Where a caller of clear_topic_state is in it: at its start, or at one of
\* its two awaits of delete_message.
CleanPhase(pc) == IF pc \in {"tc_clean", "clean"} THEN "start" ELSE pc

\* clear_topic_state(chat_id, thread_id, bot, user_data) from `phase` to its
\* next await, or to its end (next = "done").  delete_message is awaited
\* only for a message that was tracked, and its failure is swallowed.  The
\* pending fields are popped at the end, when user_data was passed and
\* _pending_thread_id equals thread_id.
clear_topic_state(phase, next, chat_id, thread_id, has_user_data) ==
  LET ikey == <<chat_id, thread_id>>
      m1 == IF phase = "start"
              THEN clear_interactive_msg(
                     clear_tool_msg_ids_for_topic(
                       clear_status_msg_info(mem, chat_id, thread_id),
                       chat_id, thread_id),
                     chat_id, thread_id)
              ELSE mem
      waits_ui == phase = "start" /\ ikey \in mem.interactive_msgs
      m2 == IF waits_ui \/ phase = "del_sug" THEN m1
            ELSE clear_suggestion(m1, chat_id, thread_id)
      waits_sug == ~waits_ui /\ phase # "del_sug" /\ ikey \in m1.suggestion_msgs
  IN /\ mem' = m2
     /\ next = IF waits_ui THEN "del_ui" ELSE IF waits_sug THEN "del_sug" ELSE "done"
     /\ user_data' =
          IF ~waits_ui /\ ~waits_sug /\ has_user_data
             /\ user_data.pending_thread_id = thread_id
            THEN [user_data EXCEPT !.pending_thread_id = NoThread, !.pending_chat = 0]
            ELSE user_data

(* topic_closed_handler *)

\* The handler starts: get_window_for_thread.
ClosedStart(chat_id, thread_id) ==
  /\ th.pc = "idle"
  /\ LET wname == get_window_for_thread(chat_id, thread_id)
     IN th' = IF wname = None THEN NoUpdate
              ELSE [NoUpdate EXCEPT !.pc = "tc_find", !.chat = chat_id,
                                       !.thread = thread_id, !.wname = wname]
  /\ HandlerMoves

\* find_window_by_name returned: a window that exists is killed next; for
\* one that is gone the thread is unbound.
ClosedFind ==
  /\ th.pc = "tc_find"
  /\ IF th.wname \in mux_windows
       THEN UNCHANGED storeVars /\ th' = [th EXCEPT !.pc = "tc_kill"]
       ELSE unbind_thread(th.chat, th.thread) /\ th' = [th EXCEPT !.pc = "tc_clean"]
  /\ UNCHANGED <<mux_windows, window_states, user_data, sp, notified, cleaned, cleared,
                 session_map>>
  /\ TopicFrame

\* kill_window returned: True, and the window is gone; or False, for a
\* window that was closed from outside since it was found.  (A multiplexer
\* that fails to kill a window that exists is not modelled.)  The result is
\* not looked at, and the thread is unbound.
ClosedKill(killed) ==
  /\ th.pc = "tc_kill"
  /\ killed <=> th.wname \in mux_windows
  /\ mux_windows' = IF killed THEN mux_windows \ {th.wname} ELSE mux_windows
  /\ unbind_thread(th.chat, th.thread)
  /\ th' = [th EXCEPT !.pc = "tc_clean"]
  /\ UNCHANGED <<window_states, user_data, sp, notified, cleaned, cleared, session_map>>
  /\ TopicFrame

\* clear_topic_state(chat_id, thread_id, context.bot, context.user_data), to
\* its next await or to its return, which ends the handler.
ClosedCleaned ==
  /\ th.pc \in {"tc_clean", "del_ui", "del_sug"}
  /\ \E next \in {"del_ui", "del_sug", "done"} :
       /\ clear_topic_state(CleanPhase(th.pc), next, th.chat, th.thread, TRUE)
       /\ IF next = "done"
            THEN /\ cleaned' = cleaned \cup {<<th.chat, th.thread, "topic_closed_handler">>}
                 /\ th' = NoUpdate
            ELSE /\ UNCHANGED cleaned
                 /\ th' = [th EXCEPT !.pc = next]
  /\ UNCHANGED <<mux_windows, window_states, sp, notified, cleared,
                 session_map, storeVars>>
  /\ TopicOuter

(* The handlers as the application calls them *)

\* config.allowed_users
allowed_users == {100}

\* update.effective_user of the updates: an allowed user, another user, or
\* none (0).
UpdateUsers == {0, 100, 300}

\* A mutant of is_user_allowed: every user passes.
is_user_allowed_all(user_id) == TRUE

\* is_user_allowed
is_user_allowed(user_id) == user_id # 0 /\ user_id \in allowed_users

\* `if not user or not is_user_allowed(user.id): return`, the first lines of
\* every handler (text_handler and callback_handler answer that the user is
\* not authorized first).
Refuse(user_id) ==
  /\ th.pc = "idle"
  /\ refused' = refused \cup {user_id}
  /\ UNCHANGED <<mux_windows, window_states, user_data, th, sp, notified, cleaned,
                 cleared, session_map, storeVars, mem, zVars, hookVars, diskVars,
                 keys_sent, offsetVars, tailVars>>
  /\ TopicInner

text_handler(user_id, chat_id, thread_id, is_dir) ==
  IF is_user_allowed(user_id) THEN TextStart(chat_id, thread_id, is_dir)
  ELSE Refuse(user_id)

topic_closed_handler(user_id, chat_id, thread_id) ==
  IF is_user_allowed(user_id) THEN ClosedStart(chat_id, thread_id)
  ELSE Refuse(user_id)

forward_command_handler(user_id, chat_id, thread_id, cc_slash) ==
  IF is_user_allowed(user_id) THEN ForwardStart(chat_id, thread_id, cc_slash)
  ELSE Refuse(user_id)

(* status_poll_loop: the pass over the bindings *)

\* list(session_manager.iter_thread_bindings())
PollBindings ==
  /\ sp.pc = "idle"
  /\ iter_thread_bindings # {}
  /\ sp' = [PollerSleeps EXCEPT !.pc = "find", !.todo = iter_thread_bindings]
  /\ UNCHANGED <<mux_windows, window_states, user_data, th, notified, cleaned, cleared,
                 session_map, storeVars>>
  /\ TopicFrame

\* The poller after a binding of its list.
PollNext(todo) ==
  [PollerSleeps EXCEPT !.pc = IF todo = {} THEN "idle" ELSE "find", !.todo = todo]

\* find_window_by_name returned for the next binding of the list: a binding
\* whose window is gone is removed and the topic's state is cleared next;
\* else the status is updated.
PollFind ==
  /\ sp.pc = "find"
  /\ \E b \in sp.todo :
       IF b[3] \notin mux_windows
         THEN /\ unbind_thread(b[1], b[2])
              /\ sp' = [sp EXCEPT !.pc = "clean", !.todo = @ \ {b}, !.cur = b]
         ELSE /\ UNCHANGED storeVars
              /\ sp' = PollNext(sp.todo \ {b})
  /\ UNCHANGED <<mux_windows, window_states, user_data, th, notified, cleaned, cleared,
                 session_map>>
  /\ TopicFrame

\* clear_topic_state(chat_id, thread_id, bot), to its next await or to its
\* return; then the poller goes on with its list.
PollCleaned ==
  /\ sp.pc \in {"clean", "del_ui", "del_sug"}
  /\ \E next \in {"del_ui", "del_sug", "done"} :
       /\ clear_topic_state(CleanPhase(sp.pc), next, sp.cur[1], sp.cur[2], FALSE)
       /\ IF next = "done"
            THEN /\ cleaned' = cleaned \cup {<<sp.cur[1], sp.cur[2], "status_poll_loop">>}
                 /\ sp' = PollNext(sp.todo)
            ELSE /\ UNCHANGED cleaned
                 /\ sp' = [sp EXCEPT !.pc = next]
  /\ UNCHANGED <<mux_windows, window_states, th, notified, cleared,
                 session_map, storeVars>>
  /\ TopicOuter

\* A window is closed from outside the bot.
WindowVanishes(window_name) ==
  /\ window_name \in mux_windows
  /\ mux_windows' = mux_windows \ {window_name}
  /\ UNCHANGED <<window_states, user_data, th, sp, notified, cleaned, cleared,
                 session_map, storeVars>>
  /\ TopicFrame

(***************************************************************************)
(* Part 7a.  The Zellij driver (multiplexer/zellij_backend.py).            *)
(*                                                                         *)
(* Every zellij action is a subprocess the caller awaits; a step is one    *)
(* action taking effect in the session.  The calls come from tasks that    *)
(* run side by side: the update handler, the pane poller, the transcript   *)
(* handler.  go-to-tab-name and new-tab move the focus; dump-screen,       *)
(* write-chars, write and close-tab act on the focused tab.                *)
(***************************************************************************)

\* How many create_window calls are started.
MaxCreated == 2

OpIds == {1, 2}

MainTab == "main"

\* The names create_window tries for the directory "proj": the base name,
\* then the base name with the suffix -2, -3, ...
DedupNames == <<"proj", "proj-2", "proj-3", "proj-4", "proj-5", "proj-6">>

TabNames == {MainTab} \cup {DedupNames[i] : i \in 1..Len(DedupNames)}

\* f"{base_name}-{counter}"
SuffixedName(counter) == DedupNames[counter]

NoCall == [kind |-> None, pc |-> "idle", window_id |-> None, final_name |-> None,
           counter |-> 0]

ZFrame == UNCHANGED <<baseVars, hookVars, diskVars, accessVars, offsetVars, tailVars>>

\* The tabs a call can name: those that exist, and one that is gone.
TabExists(name) == z_tabs[name] > 0

\* capture_pane, send_keys(text, enter=True, literal=True) or kill_window is
\* called: it waits for the lock.
ZCall(o, kind, window_id) ==
  /\ z_ops[o].pc = "idle"
  /\ z_ops' = [z_ops EXCEPT ![o] = [NoCall EXCEPT !.kind = kind, !.pc = "lock",
                                                 !.window_id = window_id]]
  /\ UNCHANGED <<z_tabs, z_focus, z_lock, z_started, z_returned>>
  /\ ZFrame

\* The call gets the lock and its go-to-tab-name takes effect.  For a tab
\* that is gone the action fails and the call returns (None, or False).
ZGoToTab(o) ==
  /\ z_ops[o].pc = "lock"
  /\ z_lock = 0
  /\ IF TabExists(z_ops[o].window_id)
       THEN /\ z_focus' = z_ops[o].window_id
            /\ z_lock' = o
            /\ z_ops' = [z_ops EXCEPT ![o].pc =
                           CASE z_ops[o].kind = "capture_pane" -> "dump-screen"
                             [] z_ops[o].kind = "send_keys" -> "write-chars"
                             [] OTHER -> "close-tab"]
       ELSE /\ z_ops' = [z_ops EXCEPT ![o] = NoCall]
            /\ UNCHANGED <<z_focus, z_lock>>
  /\ UNCHANGED <<z_tabs, z_started, z_returned>>
  /\ ZFrame

\* capture_pane: dump-screen writes the focused tab's screen; the call
\* returns it and releases the lock.
ZDumpScreen(o) ==
  /\ z_ops[o].pc = "dump-screen" /\ z_ops[o].kind = "capture_pane"
  /\ z_ops' = [z_ops EXCEPT ![o] = NoCall]
  /\ z_lock' = 0
  /\ UNCHANGED <<z_tabs, z_focus, z_started, z_returned>>
  /\ ZFrame

\* send_keys: write-chars types the text into the focused tab.
ZWriteChars(o) ==
  /\ z_ops[o].pc = "write-chars" /\ z_ops[o].kind = "send_keys"
  /\ z_ops' = [z_ops EXCEPT ![o].pc = "write"]
  /\ UNCHANGED <<z_tabs, z_focus, z_lock, z_started, z_returned>>
  /\ ZFrame

\* send_keys: after the pause, write 13 presses Enter in the focused tab;
\* the call returns and releases the lock.
ZWriteEnter(o) ==
  /\ z_ops[o].pc = "write" /\ z_ops[o].kind = "send_keys"
  /\ z_ops' = [z_ops EXCEPT ![o] = NoCall]
  /\ z_lock' = 0
  /\ UNCHANGED <<z_tabs, z_focus, z_started, z_returned>>
  /\ ZFrame

\* kill_window: close-tab closes the focused tab and the focus moves to a
\* tab that is left (the last tab of the session is not closed); the call
\* returns and releases the lock.
ZCloseTab(o, new_focus) ==
  /\ z_ops[o].pc = "close-tab"
  /\ LET closed == [z_tabs EXCEPT ![z_focus] = @ - 1]
     IN IF \E n \in TabNames : closed[n] > 0
          THEN z_tabs' = closed /\ closed[new_focus] > 0 /\ z_focus' = new_focus
          ELSE new_focus = z_focus /\ UNCHANGED <<z_tabs, z_focus>>
  /\ z_ops' = [z_ops EXCEPT ![o] = NoCall]
  /\ z_lock' = 0
  /\ UNCHANGED <<z_started, z_returned>>
  /\ ZFrame

\* create_window(work_dir) is called for the directory "proj", which
\* exists.  It does not take the lock.
ZCreateWindow(o) ==
  /\ z_ops[o].pc = "idle"
  /\ z_started < MaxCreated
  /\ z_started' = z_started + 1
  /\ z_ops' = [z_ops EXCEPT ![o] = [NoCall EXCEPT !.kind = "create_window",
                                                 !.pc = "find",
                                                 !.final_name = DedupNames[1],
                                                 !.counter = 2]]
  /\ UNCHANGED <<z_tabs, z_focus, z_lock, z_returned>>
  /\ ZFrame

\* while await self.find_window_by_name(final_name): the tab names are
\* queried; a name that is taken is replaced by the next suffixed name.
ZFindName(o) ==
  /\ z_ops[o].pc = "find"
  /\ IF TabExists(z_ops[o].final_name)
       THEN z_ops' = [z_ops EXCEPT ![o].final_name = SuffixedName(z_ops[o].counter),
                                   ![o].counter = @ + 1]
       ELSE z_ops' = [z_ops EXCEPT ![o].pc = "new-tab"]
  /\ UNCHANGED <<z_tabs, z_focus, z_lock, z_started, z_returned>>
  /\ ZFrame

\* new-tab --name final_name: the tab is made and gets the focus.  Zellij
\* does not refuse a name that a tab carries already.
ZNewTab(o) ==
  /\ z_ops[o].pc = "new-tab"
  /\ z_tabs' = [z_tabs EXCEPT ![z_ops[o].final_name] = @ + 1]
  /\ z_focus' = z_ops[o].final_name
  /\ z_ops' = [z_ops EXCEPT ![o].pc = "write-chars"]
  /\ UNCHANGED <<z_lock, z_started, z_returned>>
  /\ ZFrame

\* create_window: after the pause, write-chars types the assistant's
\* command into the focused tab.
ZTypeCommand(o) ==
  /\ z_ops[o].pc = "write-chars" /\ z_ops[o].kind = "create_window"
  /\ z_ops' = [z_ops EXCEPT ![o].pc = "write"]
  /\ UNCHANGED <<z_tabs, z_focus, z_lock, z_started, z_returned>>
  /\ ZFrame

\* create_window: after the pause, write 13 presses Enter in the focused
\* tab, and the call returns (True, message, final_name).
ZCreated(o) ==
  /\ z_ops[o].pc = "write" /\ z_ops[o].kind = "create_window"
  /\ z_returned' = Append(z_returned, z_ops[o].final_name)
  /\ z_ops' = [z_ops EXCEPT ![o] = NoCall]
  /\ UNCHANGED <<z_tabs, z_focus, z_lock, z_started>>
  /\ ZFrame

(***************************************************************************)
(* Part 7b.  The hook's write of the session map (hook.py).                *)
(*                                                                         *)
(* Every SessionStart event runs the hook in a process of its own.  A step *)
(* is one system call that touches the lock or a file.  utils.py is not    *)
(* among the sources: atomic_write_json is modelled from the               *)
(* specification (write to path.tmp, fsync, rename over path) and from     *)
(* tests/test_utils.py.  session_map is the text of session_map.json as a  *)
(* reader parses it when it is whole.                                      *)
(***************************************************************************)

HookIds == {1, 2, 3}

\* The session id invocation p was started with.
HookSession(p) == <<"h1", "h2", "h3">>[p]

NoHook == [pc |-> "idle", key |-> None, session_map |-> EmptyDict]

\* No temporary file.
NoFile == [exists |-> FALSE, data |-> EmptyDict, torn |-> FALSE]

HookFrame ==
  UNCHANGED <<storeVars, mergeVars, queueVars, uiVars, parseVars, topicVars, cleared,
              mem, zVars, diskVars, accessVars, offsetVars, tailVars, files,
              tracked_sessions, persisted, dirty, file_mtimes,
              pending_tools, last_session_map, mon, delivered, truncated, next_rec,
              restarts>>

\* The hook is run for a SessionStart event in window session_window_key.
HookInvoked(p, session_window_key) ==
  /\ hk[p].pc = "idle"
  /\ hk' = [hk EXCEPT ![p] = [NoHook EXCEPT !.pc = "flock", !.key = session_window_key]]
  /\ UNCHANGED <<session_map, hk_lock, tmp_file, map_torn, main_read>>
  /\ HookFrame

\* A mutant of HookLock: the lock is not waited for.
HookLock_unlocked(p) ==
  /\ hk[p].pc = "flock"
  /\ hk' = [hk EXCEPT ![p].pc = "read"]
  /\ UNCHANGED <<session_map, hk_lock, tmp_file, map_torn, main_read>>
  /\ HookFrame

\* fcntl.flock(lock_f, LOCK_EX) returns: no other process holds the lock.
HookLock(p) ==
  /\ hk[p].pc = "flock"
  /\ hk_lock = 0
  /\ hk_lock' = p
  /\ hk' = [hk EXCEPT ![p].pc = "read"]
  /\ UNCHANGED <<session_map, tmp_file, map_torn, main_read>>
  /\ HookFrame

\* The map is read (a text that does not parse counts as an empty map) and
\* the entry of the window is set in the copy.
HookRead(p) ==
  /\ hk[p].pc = "read"
  /\ LET read == IF map_torn THEN EmptyDict ELSE session_map
     IN hk' = [hk EXCEPT ![p].session_map = DictSet(read, hk[p].key, HookSession(p)),
                         ![p].pc = "write_tmp"]
  /\ UNCHANGED <<session_map, hk_lock, tmp_file, map_torn, main_read>>
  /\ HookFrame

\* atomic_write_json: the temporary file is created and a first part of the
\* text is written to it.
WriteTmp(p) ==
  /\ hk[p].pc = "write_tmp"
  /\ tmp_file' = [exists |-> TRUE, data |-> hk[p].session_map, torn |-> TRUE]
  /\ hk' = [hk EXCEPT ![p].pc = "fsync"]
  /\ UNCHANGED <<session_map, hk_lock, map_torn, main_read>>
  /\ HookFrame

\* atomic_write_json: the rest of the text is written and synced.
FsyncTmp(p) ==
  /\ hk[p].pc = "fsync"
  /\ tmp_file' = IF tmp_file.exists THEN [tmp_file EXCEPT !.torn = FALSE] ELSE tmp_file
  /\ hk' = [hk EXCEPT ![p].pc = "rename"]
  /\ UNCHANGED <<session_map, hk_lock, map_torn, main_read>>
  /\ HookFrame

\* atomic_write_json: the temporary file is renamed over the map; a
\* temporary file that another process has renamed already is not there,
\* and the call fails.
RenameTmp(p) ==
  /\ hk[p].pc = "rename"
  /\ IF tmp_file.exists
       THEN /\ session_map' = tmp_file.data
            /\ map_torn' = tmp_file.torn
            /\ tmp_file' = NoFile
       ELSE UNCHANGED <<session_map, map_torn, tmp_file>>
  /\ hk' = [hk EXCEPT ![p].pc = "unlock"]
  /\ UNCHANGED <<hk_lock, main_read>>
  /\ HookFrame

\* fcntl.flock(lock_f, LOCK_UN), and the process ends.
HookUnlock(p) ==
  /\ hk[p].pc = "unlock"
  /\ hk_lock' = IF hk_lock = p THEN 0 ELSE hk_lock
  /\ hk' = [hk EXCEPT ![p].pc = "done"]
  /\ UNCHANGED <<session_map, tmp_file, map_torn, main_read>>
  /\ HookFrame

\* The main process reads session_map.json (load_session_map,
\* _load_current_session_map, wait_for_session_map_entry).
\* json.loads raises JSONDecodeError for a text that is written in part.
MainReadsMap ==
  /\ main_read' = IF map_torn THEN [parsed |-> FALSE, session_map |-> EmptyDict]
                  ELSE [parsed |-> TRUE, session_map |-> session_map]
  /\ UNCHANGED <<session_map, hk, hk_lock, tmp_file, map_torn>>
  /\ HookFrame

(***************************************************************************)
(* Part 7c.  The session store and its state file (session.py).            *)
(*                                                                         *)
(* A window state is kept as its session id (the cwd goes with it).  The   *)
(* operations are those of the store as its callers use them, each with    *)
(* the save it ends with, if it has one.  The writing of the file is       *)
(* atomic_write_json; here it is one step.                                 *)
(***************************************************************************)

\* The offsets update_user_window_offset is called with.
OffsetValues == {0, 7}

\* str(uid), str(tid): the keys of a JSON object are strings.
StrOf(n) == CASE n = 100 -> "100" [] n = 200 -> "200" [] n = 41 -> "41" [] n = 42 -> "42"

\* int(uid), int(tid)
IntOf(k) == CHOOSE n \in Users \cup Threads : StrOf(n) = k

\* SessionManager._save_state: the text of the state file for the three maps.
_save_state(ws, offsets, bindings) ==
  [window_states |-> ws,
   user_window_offsets |->
     [k \in {StrOf(uid) : uid \in DOMAIN offsets} |-> offsets[IntOf(k)]],
   thread_bindings |->
     [k \in {StrOf(uid) : uid \in DOMAIN bindings} |->
        [j \in {StrOf(tid) : tid \in DOMAIN bindings[IntOf(k)]} |->
           bindings[IntOf(k)][IntOf(j)]]]]

\* SessionManager._load_state: the three maps of a fresh store.
_load_state(state) ==
  [window_states |-> state.window_states,
   user_window_offsets |->
     [uid \in {IntOf(k) : k \in DOMAIN state.user_window_offsets} |->
        state.user_window_offsets[StrOf(uid)]],
   thread_bindings |->
     [uid \in {IntOf(k) : k \in DOMAIN state.thread_bindings} |->
        [tid \in {IntOf(j) : j \in DOMAIN state.thread_bindings[StrOf(uid)]} |->
           state.thread_bindings[StrOf(uid)][StrOf(tid)]]]]

\* The (user, window) pairs of the bindings.
BoundWindows(bindings) ==
  UNION {{<<uid, bindings[uid][tid]>> : tid \in DOMAIN bindings[uid]} :
           uid \in DOMAIN bindings}

\* SessionManager._rebuild_reverse_index: for every (user, window) the
\* thread that comes last among those bound to the window.  The order of a
\* dict is not kept in the model, so the result is any of the indexes that
\* some order gives.
_rebuild_reverse_index(bindings) ==
  {r \in [BoundWindows(bindings) -> Threads] :
     \A x \in DOMAIN r : /\ r[x] \in DOMAIN bindings[x[1]]
                         /\ bindings[x[1]][r[x]] = x[2]}

\* The file that is written at the end of an operation.
Saved == state_file' = _save_state(window_states', user_window_offsets', thread_bindings')

DiskFrame ==
  UNCHANGED <<mergeVars, queueVars, uiVars, monVars, parseVars, mux_windows, user_data,
              th, sp, notified, cleaned, cleared, mem, zVars, hookVars, accessVars,
              offsetVars, tailVars>>

\* bind_thread, with its save.
StoreBind(user_id, thread_id, window_name) ==
  /\ bind_thread(user_id, thread_id, window_name)
  /\ UNCHANGED <<window_states, user_window_offsets>>
  /\ Saved
  /\ DiskFrame

\* unbind_thread of a bound thread, with its save.
StoreUnbind(user_id, thread_id) ==
  /\ get_window_for_thread(user_id, thread_id) # None
  /\ unbind_thread(user_id, thread_id)
  /\ UNCHANGED <<window_states, user_window_offsets>>
  /\ Saved
  /\ DiskFrame

\* update_user_window_offset, with its save, in a step that leaves the
\* window states and the bindings alone.
update_user_window_offset(user_id, window_name, offset) ==
  /\ user_window_offsets' =
       DictSet(user_window_offsets, user_id,
               DictSet(DictGet(user_window_offsets, user_id, EmptyDict),
                       window_name, offset))
  /\ UNCHANGED <<window_states, storeVars>>
  /\ Saved

\* A call of update_user_window_offset.
StoreOffset(user_id, window_name, offset) ==
  /\ update_user_window_offset(user_id, window_name, offset)
  /\ DiskFrame

\* get_window_state: a window that has no state gets WindowState(); the
\* store is not saved.
get_window_state(ws, window_name) ==
  IF window_name \in DOMAIN ws THEN ws ELSE DictSet(ws, window_name, "")

\* clear_window_session, with its save.
StoreClear(window_name) ==
  /\ window_states' = DictSet(get_window_state(window_states, window_name), window_name, "")
  /\ UNCHANGED <<user_window_offsets, storeVars>>
  /\ Saved
  /\ DiskFrame

\* resolve_session_for_window: without a session id it returns None; with
\* one whose transcript exists it returns the session; with one whose
\* transcript is gone it clears the state and saves.
resolve_session_for_window(window_name, file_exists) ==
  LET ws == get_window_state(window_states, window_name)
  IN /\ UNCHANGED <<user_window_offsets, storeVars>>
     /\ IF ws[window_name] = "" \/ file_exists
          THEN window_states' = ws /\ UNCHANGED state_file
          ELSE window_states' = DictSet(ws, window_name, "") /\ Saved
     /\ DiskFrame

\* load_session_map: the states follow the session map, and the store is
\* saved if a state changed or was removed.
StoreLoadMap ==
  /\ window_states' =
       [wn \in DOMAIN session_map |->
          IF DictGet(window_states, wn, "") # session_map[wn]
            THEN session_map[wn] ELSE window_states[wn]]
  /\ UNCHANGED <<user_window_offsets, storeVars>>
  /\ IF window_states' # window_states THEN Saved ELSE UNCHANGED state_file
  /\ DiskFrame

(***************************************************************************)
(* Part 7d.  The read offset of a chat for a window (bot.py                *)
(* handle_new_message, session.py update_user_window_offset).              *)
(*                                                                         *)
(* One transcript, of window "proj", which topic 41 of chat 100 is bound   *)
(* to.  A record is its length in bytes and whether it gives a message     *)
(* (a complete text) or none.  The monitor reads the records that are new  *)
(* and calls the handler with their messages one after the other; the      *)
(* handler enqueues the message and sets the read offset; the queue's      *)
(* worker sends the message, or gives it up after an error.                *)
(***************************************************************************)

\* How many records are written.
MaxWrites == 3

Records == [len : {2, 3}, kind : {"text"}] \cup [len : {1}, kind : {"meta"}]

\* The byte at which record i starts.
StartOf(i) == FileSize(SubSeq(t_file, 1, i - 1))

OffsetFrame == UNCHANGED <<baseVars, zVars, hookVars, accessVars, tailVars>>

\* Claude Code appends a record to the transcript.
TranscriptWrites(rec) ==
  /\ Len(t_file) < MaxWrites
  /\ t_file' = Append(t_file, rec)
  /\ UNCHANGED <<t_read, t_pending, hm, t_queue, t_sent, diskVars>>
  /\ OffsetFrame

RECURSIVE MessagesOf(_, _)
\* The messages of the records from..Len(t_file), in order.
MessagesOf(from, to) ==
  IF from > to THEN << >>
  ELSE (IF t_file[from].kind = "text" THEN <<from>> ELSE << >>) \o MessagesOf(from + 1, to)

\* check_for_updates: the monitor reads the records that are new; the loop
\* then awaits the callback for each of their messages in turn.
MonitorReads ==
  /\ t_pending = << >> /\ hm.pc = "idle"
  /\ t_read < Len(t_file)
  /\ t_pending' = MessagesOf(t_read + 1, Len(t_file))
  /\ t_read' = Len(t_file)
  /\ UNCHANGED <<t_file, hm, t_queue, t_sent, diskVars>>
  /\ OffsetFrame

\* handle_new_message for a complete message, up to its await of
\* resolve_session_for_window: find_users_for_session gives (100, proj, 41),
\* and enqueue_content_message puts the task into the chat's queue.
HandleEnqueues ==
  /\ hm.pc = "idle" /\ t_pending # << >>
  /\ get_window_for_thread(100, 41) = "proj"
  /\ t_queue' = Append(t_queue, Head(t_pending))
  /\ t_pending' = Tail(t_pending)
  /\ hm' = [pc |-> "resolve", rec |-> Head(t_pending)]
  /\ UNCHANGED <<t_file, t_read, t_sent, diskVars>>
  /\ OffsetFrame

\* handle_new_message after resolve_session_for_window: with a session whose
\* file can be read, the read offset of (chat, window) becomes the size the
\* file has now; the handler returns.
HandleSetsOffset(found) ==
  /\ hm.pc = "resolve"
  /\ IF found
       THEN update_user_window_offset(100, "proj", FileSize(t_file))
       ELSE UNCHANGED diskVars
  /\ hm' = [pc |-> "idle", rec |-> 0]
  /\ UNCHANGED <<t_file, t_read, t_pending, t_queue, t_sent>>
  /\ OffsetFrame

\* The worker of the chat's queue takes the next task and sends its
\* message, or gives it up after an error of the platform.
WorkerSends(success) ==
  /\ t_queue # << >>
  /\ t_queue' = Tail(t_queue)
  /\ t_sent' = IF success THEN t_sent \cup {Head(t_queue)} ELSE t_sent
  /\ UNCHANGED <<t_file, t_read, t_pending, hm, diskVars>>
  /\ OffsetFrame

(***************************************************************************)
(* Part 7e.  The loading of the session map (session.py load_session_map). *)
(*                                                                         *)
(* Here a key of the map is the pair of the session name and the window    *)
(* name that the text "session:window" is made of, an entry is its         *)
(* session_id and cwd, and a window state is the pair (session_id, cwd).   *)
(* A window may have the empty name.                                       *)
(***************************************************************************)

\* config.tmux_session_name
tmux_session_name == "ccbot"

\* The keys of the map: windows of this session and one of another session.
MapKeys == {<<"ccbot", "">>, <<"ccbot", "proj">>, <<"other", "proj">>}

MapWindows == {"", "proj"}

\* The entries the hook writes, and entries without a session id.
MapInfos == [session_id : {"", "s1", "s2"}, cwd : {"/a"}]
              \cup [session_id : {"s1"}, cwd : {"/b"}]

\* WindowState()
NewWindowState == [session_id |-> "", cwd |-> ""]

\* key.startswith(prefix), with prefix = tmux_session_name + ":"
HasPrefix(key) == key[1] = tmux_session_name

\* The window names of the entries of this session (valid_windows).
valid_windows(map) == {key[2] : key \in {k \in DOMAIN map : HasPrefix(k)}}

\* The entry of a window of this session.
InfoOf(map, window_name) == map[<<tmux_session_name, window_name>>]

\* A mutant of LoadedStates: no window state is removed.
LoadedStates_keeps(ws, map) ==
  [wn \in DOMAIN ws \cup {x \in valid_windows(map) : InfoOf(map, x).session_id # ""} |->
     IF wn \in valid_windows(map) /\ InfoOf(map, wn).session_id # ""
       THEN [session_id |-> InfoOf(map, wn).session_id, cwd |-> InfoOf(map, wn).cwd]
       ELSE ws[wn]]

\* The window states after the two loops of load_session_map: the state of
\* every window of this session whose entry has a session id is that of the
\* entry (made if there was none); then the states of the windows with a
\* non-empty name that are not among the valid windows are deleted.
LoadedStates(ws, map) ==
  LET updated == {x \in valid_windows(map) : InfoOf(map, x).session_id # ""}
      stale == {wn \in DOMAIN ws \cup updated : wn # "" /\ wn \notin valid_windows(map)}
  IN [wn \in (DOMAIN ws \cup updated) \ stale |->
        IF wn \in updated
          THEN [session_id |-> InfoOf(map, wn).session_id, cwd |-> InfoOf(map, wn).cwd]
          ELSE ws[wn]]

MapFrame ==
  UNCHANGED <<mergeVars, queueVars, uiVars, monVars, parseVars, mux_windows, user_data,
              th, sp, notified, cleaned, cleared, mem, zVars, hookVars, accessVars,
              offsetVars, storeVars, session_map, loopVars, delivVars>>

\* load_session_map: nothing is done without the file or with a file that
\* is no JSON; the store is saved if a state changed or was deleted.
load_session_map ==
  /\ window_states' = IF map_file.kind # "json" THEN window_states
                      ELSE LoadedStates(window_states, map_file.map)
  /\ UNCHANGED <<user_window_offsets, map_file>>
  /\ MapFrame
  /\ IF window_states' # window_states THEN Saved ELSE UNCHANGED state_file

\* The hook writes the entry of a window, or the file is written anew
\* without it, is removed, or is damaged.
MapFileWritten(new) ==
  /\ new # map_file
  /\ map_file' = new
  /\ UNCHANGED <<window_states, diskVars>>
  /\ MapFrame

\* get_window_state for a window, as resolve_session_for_window calls it
\* for a bound window.
GetWindowState(window_name) ==
  /\ window_name \notin DOMAIN window_states
  /\ window_states' = DictSet(window_states, window_name, NewWindowState)
  /\ UNCHANGED <<diskVars, map_file>>
  /\ MapFrame

(***************************************************************************)
(* Part 7g.  The deliveries to one topic (handlers/message_queue.py        *)
(* _process_content_task, _convert_status_to_content,                      *)
(* _process_status_update_task, _do_send_status_message,                   *)
(* _do_clear_status_message, _check_and_send_status;                       *)
(* handlers/status_polling.py update_status_message;                       *)
(* handlers/interactive_ui.py handle_interactive_ui).                      *)
(*                                                                         *)
(* The topic is thread 41 of chat 100.  The worker of the chat's queue,    *)
(* the poller's update_status_message and the update handlers of Part 7    *)
(* are separate tasks; a step is what one of them does between two         *)
(* awaits.  The dictionaries are those of mem: a key is in a dictionary of *)
(* mem when the dictionary has an entry for it.  A platform call that      *)
(* fails leaves the chat as it was; RetryAfter is not modelled here.       *)
(***************************************************************************)

\* The number of content tasks ever enqueued for the topic.
MaxTasks == 2

\* The number of messages ever sent to the topic.
MaxSent == 2

\* The topic, as the key (user_id, thread_id_or_0) of the dictionaries.
TopicKey == <<100, 41>>

\* The key of the topic's tool message in _tool_msg_ids.
ToolKey == <<"tu1", 100, 41>>

\* The kinds of task: a status update with a text, a status clear, a text
\* content, and the content of a tool_use.
TaskKinds == {"status", "clear", "text", "tool_use"}

WorkerWaits == [pc |-> "get", kind |-> None, wname |-> None, msg_id |-> NoMessage]

PollerAway == [pc |-> "idle", wname |-> None]

DelivFrame ==
  UNCHANGED <<storeVars, mergeVars, queueVars, uiVars, monVars, parseVars, topicVars,
              cleared, zVars, hookVars, diskVars, accessVars, offsetVars, map_file,
              loopVars>>

\* queue.put_nowait(task) for the topic
TopicPut(kind, wname) == dq' = Append(dq, [kind |-> kind, wname |-> wname])

\* handle_new_message: find_users_for_session finds the binding of the
\* topic, and the content is enqueued.
TopicContent(kind) ==
  /\ d_count < MaxTasks
  /\ get_window_for_thread(100, 41) # None
  /\ TopicPut(kind, get_window_for_thread(100, 41))
  /\ d_count' = d_count + 1
  /\ UNCHANGED <<dw, dp, s_id, s_live, s_next, mem>>
  /\ DelivFrame

\* _message_queue_worker takes a task; up to the first await of its
\* processing.  A content task pops the status entry to turn the message
\* into its first part (_convert_status_to_content), or sends the part.  A
\* status update with an entry edits the message when the text is another
\* one, and without one sends a message.  A status clear pops the entry and
\* deletes the message.
DelivGet(same_text) ==
  /\ dw.pc = "get"
  /\ dq # << >>
  /\ LET task == Head(dq)
         has == TopicKey \in mem.status_msg_info
         at(pc) == [pc |-> pc, kind |-> task.kind, wname |-> task.wname,
                    msg_id |-> IF has THEN s_id ELSE NoMessage]
     IN CASE task.kind \in {"text", "tool_use"} ->
               /\ mem' = clear_status_msg_info(mem, 100, 41)
               /\ dw' = at(IF has THEN "cv_edit" ELSE "ct_send")
          [] task.kind = "status" ->
               /\ UNCHANGED mem
               /\ dw' = IF ~ has THEN at("st_send")
                        ELSE IF same_text THEN WorkerWaits ELSE at("st_edit")
          [] task.kind = "clear" ->
               /\ mem' = clear_status_msg_info(mem, 100, 41)
               /\ dw' = IF has THEN at("cl_delete") ELSE WorkerWaits
  /\ dq' = Tail(dq)
  /\ UNCHANGED <<dp, s_id, s_live, s_next, d_count>>
  /\ DelivFrame

\* _do_send_status_message: the send returned, and a message that was sent
\* is recorded.
DelivStatusSent(ok) ==
  /\ dw.pc = "st_send"
  /\ ok => s_next <= MaxSent
  /\ IF ok
       THEN /\ mem' = [mem EXCEPT !.status_msg_info = @ \cup {TopicKey}]
            /\ s_id' = s_next
            /\ s_live' = s_live \cup {s_next}
            /\ s_next' = s_next + 1
       ELSE UNCHANGED <<mem, s_id, s_live, s_next>>
  /\ dw' = WorkerWaits
  /\ UNCHANGED <<dq, dp, d_count>>
  /\ DelivFrame

\* _process_status_update_task: the edit returned.  After an edit the entry
\* is written with the message id read before it; after one that failed
\* the entry is popped and a new message is sent.
DelivStatusEdited(ok) ==
  /\ dw.pc = "st_edit"
  /\ IF ok
       THEN /\ mem' = [mem EXCEPT !.status_msg_info = @ \cup {TopicKey}]
            /\ s_id' = dw.msg_id
            /\ dw' = WorkerWaits
       ELSE /\ mem' = clear_status_msg_info(mem, 100, 41)
            /\ UNCHANGED s_id
            /\ dw' = [dw EXCEPT !.pc = "st_send"]
  /\ UNCHANGED <<dq, dp, s_live, s_next, d_count>>
  /\ DelivFrame

\* _do_clear_status_message: delete_message returned; its failure is
\* swallowed.
DelivCleared(ok) ==
  /\ dw.pc = "cl_delete"
  /\ s_live' = IF ok THEN s_live \ {dw.msg_id} ELSE s_live
  /\ dw' = WorkerWaits
  /\ UNCHANGED <<dq, dp, s_id, s_next, d_count, mem>>
  /\ DelivFrame

\* _process_content_task after its last part: the message id of a tool_use
\* is recorded, and _check_and_send_status goes on only with an empty queue.
TopicAfterParts(last_msg_id) ==
  /\ mem' = IF last_msg_id # NoMessage /\ dw.kind = "tool_use"
              THEN [mem EXCEPT !.tool_msg_ids = @ \cup {ToolKey}]
              ELSE mem
  /\ dw' = IF dq # << >> THEN WorkerWaits ELSE [dw EXCEPT !.pc = "cs_find"]

\* _convert_status_to_content: the edit returned.  The message edited is
\* the first part; after a failure the part is sent.
DelivConverted(ok) ==
  /\ dw.pc = "cv_edit"
  /\ IF ok
       THEN /\ s_live' = s_live \ {dw.msg_id}
            /\ TopicAfterParts(dw.msg_id)
       ELSE /\ dw' = [dw EXCEPT !.pc = "ct_send"]
            /\ UNCHANGED <<s_live, mem>>
  /\ UNCHANGED <<dq, dp, s_id, s_next, d_count>>
  /\ DelivFrame

\* rate_limit_send_message of the part returned.
DelivContentSent(ok) ==
  /\ dw.pc = "ct_send"
  /\ ok => s_next <= MaxSent
  /\ s_next' = IF ok THEN s_next + 1 ELSE s_next
  /\ TopicAfterParts(IF ok THEN s_next ELSE NoMessage)
  /\ UNCHANGED <<dq, dp, s_id, s_live, d_count>>
  /\ DelivFrame

\* _check_and_send_status: find_window_by_name returned.
DelivCheckFound ==
  /\ dw.pc = "cs_find"
  /\ dw' = IF dw.wname \in mux_windows THEN [dw EXCEPT !.pc = "cs_capture"]
           ELSE WorkerWaits
  /\ UNCHANGED <<dq, dp, s_id, s_live, s_next, d_count, mem>>
  /\ DelivFrame

\* _check_and_send_status: capture_pane returned, nothing for a window that
\* is gone; with a status line _do_send_status_message is called.
DelivCheckCaptured(has_status) ==
  /\ dw.pc = "cs_capture"
  /\ dw' = IF dw.wname \in mux_windows /\ has_status THEN [dw EXCEPT !.pc = "st_send"]
           ELSE WorkerWaits
  /\ UNCHANGED <<dq, dp, s_id, s_live, s_next, d_count, mem>>
  /\ DelivFrame

\* status_poll_loop comes to the binding of the topic: its window is found
\* and the queue is empty, and update_status_message is called.  (The
\* binding of a window that is gone is cleaned up by the steps of Part 7.)
TopicPollTick ==
  /\ dp.pc = "idle"
  /\ sp.pc = "idle"
  /\ get_window_for_thread(100, 41) # None
  /\ get_window_for_thread(100, 41) \in mux_windows
  /\ dq = << >>
  /\ dp' = [pc |-> "find", wname |-> get_window_for_thread(100, 41)]
  /\ UNCHANGED <<dq, dw, s_id, s_live, s_next, d_count, mem>>
  /\ DelivFrame

\* update_status_message: find_window_by_name returned; for a window that
\* is gone a status clear is enqueued.
TopicPollFound ==
  /\ dp.pc = "find"
  /\ IF dp.wname \in mux_windows
       THEN dp' = [dp EXCEPT !.pc = "capture"] /\ UNCHANGED dq
       ELSE dp' = PollerAway /\ TopicPut("clear", dp.wname)
  /\ UNCHANGED <<dw, s_id, s_live, s_next, d_count, mem>>
  /\ DelivFrame

\* update_status_message: capture_pane returned (nothing for a window that
\* is gone).  In interactive mode a prompt without a message id ends the
\* call and a pane without prompt clears the interactive message; a prompt
\* is handed to handle_interactive_ui; a status line is enqueued.
TopicPollCaptured(pane_text) ==
  /\ dp.pc = "capture"
  /\ LET mode == TopicKey \in mem.interactive_mode
         tracked == TopicKey \in mem.interactive_msgs
         gone == dp.wname \notin mux_windows
         shows_ui == pane_text = "ui"
         cleared_ui == mode /\ ~ shows_ui
     IN /\ dp' = IF ~ gone /\ shows_ui /\ ~ (mode /\ ~ tracked)
                   THEN [dp EXCEPT !.pc = "ui_find"] ELSE PollerAway
        /\ mem' = IF ~ gone /\ cleared_ui THEN clear_interactive_msg(mem, 100, 41) ELSE mem
        /\ IF ~ gone /\ ~ shows_ui /\ pane_text = "status"
             THEN TopicPut("status", dp.wname)
             ELSE UNCHANGED dq
  /\ UNCHANGED <<dw, s_id, s_live, s_next, d_count>>
  /\ DelivFrame

\* handle_interactive_ui: find_window_by_name returned.
TopicUiFound ==
  /\ dp.pc = "ui_find"
  /\ dp' = IF dp.wname \in mux_windows THEN [dp EXCEPT !.pc = "ui_capture"] ELSE PollerAway
  /\ UNCHANGED <<dq, dw, s_id, s_live, s_next, d_count, mem>>
  /\ DelivFrame

\* handle_interactive_ui: capture_pane returned; a prompt is sent as a new
\* keyboard message, or the message on record is edited.
TopicUiCaptured(pane_text) ==
  /\ dp.pc = "ui_capture"
  /\ dp' = IF dp.wname \in mux_windows /\ pane_text = "ui"
             THEN [dp EXCEPT !.pc = IF TopicKey \in mem.interactive_msgs
                                      THEN "ui_edit" ELSE "ui_send"]
             ELSE PollerAway
  /\ UNCHANGED <<dq, dw, s_id, s_live, s_next, d_count, mem>>
  /\ DelivFrame

\* handle_interactive_ui: the send or the edit returned; after a send the
\* message id and the mode are recorded, after an edit the mode.
TopicUiSent(ok) ==
  /\ dp.pc \in {"ui_send", "ui_edit"}
  /\ ok /\ dp.pc = "ui_send" => s_next <= MaxSent
  /\ mem' = IF ~ ok THEN mem
            ELSE IF dp.pc = "ui_send"
              THEN [mem EXCEPT !.interactive_msgs = @ \cup {TopicKey},
                               !.interactive_mode = @ \cup {TopicKey}]
            ELSE [mem EXCEPT !.interactive_mode = @ \cup {TopicKey}]
  /\ s_next' = IF ok /\ dp.pc = "ui_send" THEN s_next + 1 ELSE s_next
  /\ dp' = PollerAway
  /\ UNCHANGED <<dq, dw, s_id, s_live, d_count>>
  /\ DelivFrame

DelivIdle ==
  /\ dq = << >>
  /\ dw = WorkerWaits
  /\ dp = PollerAway
  /\ s_id = NoMessage
  /\ s_live = {}
  /\ s_next = 1
  /\ d_count = 0

(***************************************************************************)
(* Part 7f.  Errors in the background loops (status_polling.py             *)
(* status_poll_loop; session_monitor.py _monitor_loop, check_for_updates   *)
(* and _read_new_lines).                                                   *)
(*                                                                         *)
(* An iteration of a loop goes through its bindings or sessions one by     *)
(* one.  What is done for one of them may raise an error; the try          *)
(* statements around it decide where the loop goes on.                     *)
(***************************************************************************)

\* Each loop makes at most MaxIters iterations.
MaxIters == 2

\* The bindings the poller iterates over, as (chat, thread, window).
LoopBindings == <<<<41, 41, "proj">>, <<41, 42, "main">>>>

\* The errors raised in the loops: from the Telegram API or the multiplexer
\* (any Exception), from the file system (OSError), and from the decoding
\* of a transcript that is no UTF-8 text (UnicodeDecodeError, a ValueError).
Errors == {"TelegramError", "OSError", "UnicodeDecodeError"}

\* isinstance(error, cls) for the classes named in the except clauses.
IsInstance(error, cls) ==
  \/ cls = "Exception"
  \/ cls = "OSError" /\ error = "OSError"

\* How a transcript file can be read: well; not at all, stat raising
\* OSError; stat works and open raises OSError; or it holds bytes that are
\* no UTF-8 text, and the iteration over its lines raises UnicodeDecodeError.
Healths == {"ok", "no_stat", "no_open", "bad_utf8"}

\* A loop asleep between two iterations.
LoopAsleep(n) ==
  [pc |-> "sleep", todo |-> << >>, due |-> {}, seen |-> {}, raised |-> {},
   new_messages |-> << >>, called |-> << >>, iter |-> n]

\* The elements of a sequence.
ElemsOf(seq) == {seq[k] : k \in 1..Len(seq)}

\* Where a loop goes on after an error raised for one item of its
\* iteration: with the next item if the try statement around the item
\* catches it, to its sleep and next iteration if the try statement around
\* the iteration catches it, and nowhere otherwise.
AfterError(error, item_catches, iteration_catches) ==
  IF IsInstance(error, item_catches) THEN "next_item"
  ELSE IF IsInstance(error, iteration_catches) THEN "sleep"
  ELSE "dead"

\* The loop after the work on the head of todo: done without error
\* (error = None) or with one.
LoopStep(l, error, item_catches, iteration_catches, msgs) ==
  LET item == Head(l.todo)
      to == IF error = None THEN "next_item"
            ELSE AfterError(error, item_catches, iteration_catches)
  IN IF to = "next_item"
       THEN [l EXCEPT !.todo = Tail(@),
                      !.seen = @ \cup {item},
                      !.raised = IF error = None THEN @ ELSE @ \cup {item},
                      !.new_messages = @ \o msgs]
       ELSE [l EXCEPT !.pc = to, !.todo = << >>, !.new_messages = << >>,
                      !.raised = @ \cup {item}]

LoopFrame ==
  UNCHANGED <<baseVars, zVars, hookVars, diskVars, accessVars, offsetVars, map_file,
              delivVars>>

\* status_poll_loop wakes and lists the bindings.
PollLoopWake ==
  /\ ploop.pc = "sleep"
  /\ ploop.iter < MaxIters
  /\ ploop' = [LoopAsleep(ploop.iter + 1) EXCEPT
                 !.pc = "items", !.todo = LoopBindings, !.due = ElemsOf(LoopBindings)]
  /\ UNCHANGED <<mloop, t_health>>
  /\ LoopFrame

\* The body of the loop over the bindings for one binding, in its
\* try ... except Exception: the window is looked for, a stale binding is
\* cleaned up, or the status message is updated; any of the calls may raise.
PollLoopBinding(error) ==
  /\ ploop.pc = "items"
  /\ ploop.todo # << >>
  /\ ploop' = LoopStep(ploop, error, "Exception", "Exception", << >>)
  /\ UNCHANGED <<mloop, t_health>>
  /\ LoopFrame

\* After the last binding: await asyncio.sleep(STATUS_POLL_INTERVAL)
PollLoopSleep ==
  /\ ploop.pc = "items"
  /\ ploop.todo = << >>
  /\ ploop' = [ploop EXCEPT !.pc = "sleep"]
  /\ UNCHANGED <<mloop, t_health>>
  /\ LoopFrame

\* _monitor_loop wakes: the session map is loaded, the changes are cleaned
\* up and the projects are scanned, all inside the try ... except Exception
\* of the iteration; the loop of check_for_updates over the sessions starts.
MonLoopWake(error) ==
  /\ mloop.pc = "sleep"
  /\ mloop.iter < MaxIters
  /\ mloop' = IF error = None
                THEN [LoopAsleep(mloop.iter + 1) EXCEPT
                        !.pc = "items", !.todo = <<"s1", "s2">>, !.due = {"s1", "s2"}]
                ELSE [LoopAsleep(mloop.iter + 1) EXCEPT
                        !.pc = AfterError(error, "Exception", "Exception")]
  /\ UNCHANGED <<ploop, t_health>>
  /\ LoopFrame

\* The error that the work of check_for_updates on a tracked session with a
\* new mtime raises out of its calls: OSError from stat; none from a failed
\* open, which _read_new_lines catches itself (except OSError) and answers
\* with no entries; UnicodeDecodeError from the lines of a file that is no
\* UTF-8 text, which _read_new_lines lets through.
SessionError(health) ==
  CASE health = "ok" -> None
    [] health = "no_stat" -> "OSError"
    [] health = "no_open" -> None
    [] health = "bad_utf8" -> "UnicodeDecodeError"

\* The body of the loop of check_for_updates for one session, in its
\* try ... except OSError; a file read well gives a message.
MonLoopSession ==
  /\ mloop.pc = "items"
  /\ mloop.todo # << >>
  /\ LET sid == Head(mloop.todo)
         error == SessionError(t_health[sid])
         msgs == IF t_health[sid] = "ok" THEN <<sid>> ELSE << >>
     IN mloop' = LoopStep(mloop, error, "OSError", "Exception", msgs)
  /\ UNCHANGED <<ploop, t_health>>
  /\ LoopFrame

\* After the last session check_for_updates returns its messages, and the
\* loop calls the callback with each in a try ... except Exception.
MonLoopCallback(error) ==
  /\ mloop.pc = "items"
  /\ mloop.todo = << >>
  /\ mloop.new_messages # << >>
  /\ mloop' = [mloop EXCEPT !.new_messages = Tail(@),
                            !.called = Append(@, Head(mloop.new_messages))]
  /\ UNCHANGED <<ploop, t_health>>
  /\ LoopFrame

\* await asyncio.sleep(self.poll_interval)
MonLoopSleep ==
  /\ mloop.pc = "items"
  /\ mloop.todo = << >>
  /\ mloop.new_messages = << >>
  /\ mloop' = [mloop EXCEPT !.pc = "sleep"]
  /\ UNCHANGED <<ploop, t_health>>
  /\ LoopFrame

\* A transcript file becomes readable in another way.
TranscriptHealth(sid, health) ==
  /\ t_health[sid] # health
  /\ t_health' = [t_health EXCEPT ![sid] = health]
  /\ UNCHANGED <<ploop, mloop>>
  /\ LoopFrame

LoopsIdle ==
  /\ ploop = LoopAsleep(0)
  /\ mloop = LoopAsleep(0)
  /\ t_health = [sid \in {"s1", "s2"} |-> "ok"]

TailIdle == map_file = NoMapFile /\ LoopsIdle /\ DelivIdle

(***************************************************************************)
(* Part 8.  Specifications.                                                *)
(***************************************************************************)

vars == <<storeVars, mergeVars, queueVars, uiVars, laterVars>>

UiInit ==
  /\ interactive_msgs = EmptyDict
  /\ interactive_mode = EmptyDict
  /\ h = IdleHandler
  /\ pl = IdlePoller
  /\ transcript = << >>
  /\ emitted = << >>
  /\ pane = "blank"
  /\ overtaken = {}

StoreInit == thread_bindings = EmptyDict /\ window_to_thread = EmptyDict

\* The monitor at construction, with no state file and empty transcripts.
MonIdle ==
  /\ files = [sid \in Sessions |-> [recs |-> << >>, mtime |-> 1]]
  /\ tracked_sessions = EmptyDict
  /\ persisted = EmptyDict
  /\ dirty = FALSE
  /\ file_mtimes = EmptyDict
  /\ pending_tools = EmptyDict
  /\ last_session_map = EmptyDict
  /\ mon = StartMonitor
  /\ delivered = << >>
  /\ truncated = {}
  /\ next_rec = 1
  /\ restarts = 0

\* ... and with no session in the map.
MonInit == session_map = EmptyDict /\ MonIdle

ParseIdle ==
  p_records = << >> /\ p_pos = 0 /\ p_events = << >> /\ p_cuts = {} /\ p_oneshot = << >>

\* The session with its main tab only, and no call of the driver.
ZIdle ==
  /\ z_tabs = [n \in TabNames |-> IF n = MainTab THEN 1 ELSE 0]
  /\ z_focus = MainTab
  /\ z_lock = 0
  /\ z_ops = [o \in OpIds |-> NoCall]
  /\ z_started = 0
  /\ z_returned = << >>

\* No hook runs; the session map is whole.
HookIdle ==
  /\ hk = [p \in HookIds |-> NoHook]
  /\ hk_lock = 0
  /\ tmp_file = NoFile
  /\ map_torn = FALSE
  /\ main_read = [parsed |-> TRUE, session_map |-> EmptyDict]

\* No offset, and the state file of an empty store.
DiskIdle ==
  /\ user_window_offsets = EmptyDict
  /\ state_file = _save_state(EmptyDict, EmptyDict, EmptyDict)

\* No update was refused and no keys were sent.
AccessIdle == refused = {} /\ keys_sent = {}

\* An empty transcript, and nothing on its way.
OffsetIdle ==
  /\ t_file = << >> /\ t_read = 0 /\ t_pending = << >> /\ t_queue = << >> /\ t_sent = {}
  /\ hm = [pc |-> "idle", rec |-> 0]

PartsIdle ==
  /\ ZIdle /\ HookIdle /\ DiskIdle /\ AccessIdle /\ OffsetIdle
  /\ TailIdle

\* No update is being handled and the poller sleeps.
TopicsQuiet ==
  /\ user_data = NoUserData
  /\ th = NoUpdate
  /\ sp = PollerSleeps
  /\ notified = [b \in Users \X Threads |-> 0]
  /\ cleaned = {}
  /\ cleared = {}
  /\ mem = EmptyMem

HandlersIdle == TopicsQuiet /\ PartsIdle

\* No window, and no update being handled.
TopicIdle == mux_windows = {} /\ window_states = EmptyDict /\ HandlersIdle

LaterInit == MonInit /\ ParseIdle /\ TopicIdle

MergeIdle == m_first = None /\ m_items = << >> /\ m_result = << >>

QueueInit ==
  /\ queue = << >>
  /\ unfinished = 0
  /\ join_state = "none"
  /\ w = IdleWorker
  /\ tool_msg_ids = EmptyDict
  /\ status_msg_info = EmptyDict
  /\ next_message_id = 1
  /\ next_id = 1
  /\ join_before = {}
  /\ done = {}
  /\ last_failed = {}
  /\ ops = << >>

(* The session store under arbitrary bind_thread and unbind_thread calls. *)

BindThread(user_id, thread_id, window_name) ==
  /\ bind_thread(user_id, thread_id, window_name)
  /\ UNCHANGED <<mergeVars, queueVars, uiVars, laterVars>>

UnbindThread(user_id, thread_id) ==
  /\ unbind_thread(user_id, thread_id)
  /\ UNCHANGED <<mergeVars, queueVars, uiVars, laterVars>>

InitBind == StoreInit /\ MergeIdle /\ QueueInit /\ UiInit /\ LaterInit

NextBind ==
  \/ \E u \in Users, t \in Threads, wn \in Windows : BindThread(u, t, wn)
  \/ \E u \in Users, t \in Threads : UnbindThread(u, t)

SpecBind == InitBind /\ [][NextBind]_vars

(* One call of _merge_content_tasks on an arbitrary queue content. *)

\* The longest queue content of a merge call.
MaxItems == 2

\* The tasks of a merge call, without their ids: content tasks of the two
\* windows (text, thinking, tool_use, tool_result), whose lengths put the
\* sums on both sides of MERGE_MAX_LENGTH, and a status update.
MergeShapes ==
  {[task_type |-> "content", window_name |-> wn, lens |-> l, content_type |-> "text"] :
       wn \in Windows, l \in {<<600>>, <<1900>>, <<1901>>, <<950, 950>>}}
  \cup {[task_type |-> "content", window_name |-> "proj", lens |-> l, content_type |-> ct] :
       l \in {<<1900>>}, ct \in {"thinking", "tool_use", "tool_result"}}
  \cup {[task_type |-> "content", window_name |-> "proj", lens |-> <<4000>>,
         content_type |-> "text"],
        [task_type |-> "status_update", window_name |-> "proj", lens |-> << >>,
         content_type |-> "text"]}

ShapeTask(id, shape) ==
  MessageTask(id, shape.task_type,
              IF shape.task_type = "content" THEN None ELSE "working",
              shape.window_name, shape.lens,
              IF shape.content_type \in {"tool_use", "tool_result"} THEN "T1" ELSE None,
              shape.content_type, 41)

InitMerge ==
  /\ StoreInit /\ QueueInit /\ UiInit /\ LaterInit
  /\ m_result = << >>
  /\ \E first \in {sh \in MergeShapes : sh.task_type = "content"} :
       m_first = ShapeTask(1, first)
  /\ \E n \in 0..MaxItems : \E shapes \in [1..n -> MergeShapes] :
       m_items = [k \in 1..n |-> ShapeTask(k + 1, shapes[k])]

MergeCall ==
  /\ m_result = << >>
  /\ m_result' = <<_merge_content_tasks(m_first, m_items)>>
  /\ UNCHANGED <<m_first, m_items, storeVars, queueVars, uiVars, laterVars>>

NextMerge == MergeCall

SpecMerge == InitMerge /\ [][NextMerge]_vars

(* One chat's queue: producers, the worker, and a caller of join(). *)

\* What the producers enqueue: texts that merge (1500 + 1500) or do not
\* (with 2500, or of another window), a tool_use and its tool_result; status
\* updates of both windows and a status clear.
QueueContents ==
  {<<"proj", l, None, "text", 41>> : l \in {<<1500>>, <<2500>>}}
  \cup {<<"docs", <<1500>>, None, "text", 41>>}
  \cup {<<"proj", <<1500>>, "T1", ct, 41>> : ct \in {"tool_use", "tool_result"}}

QueueStatuses ==
  {<<wn, "thinking", 41>> : wn \in Windows} \cup {<<"proj", None, 41>>}

InitQueue == StoreInit /\ MergeIdle /\ QueueInit /\ UiInit /\ LaterInit

NextQueue ==
  \/ \E c \in QueueContents :
       enqueue_content_message(c[1], c[2], c[3], c[4], c[5])
  \/ \E u \in QueueStatuses : enqueue_status_update(u[1], u[2], u[3])
  \/ Worker

SpecQueue == InitQueue /\ [][NextQueue]_vars

(* The queue with a caller of join(): the tasks are texts, which merge, a  *)
(* tool_use and its tool_result, which are put back, and a status update.  *)

JoinContents ==
  {<<"proj", <<1500>>, None, "text", 41>>}
  \cup {<<"proj", <<1500>>, "T1", ct, 41>> : ct \in {"tool_use", "tool_result"}}

InitJoin == StoreInit /\ MergeIdle /\ QueueInit /\ UiInit /\ LaterInit

NextJoin ==
  \/ \E c \in JoinContents :
       enqueue_content_message(c[1], c[2], c[3], c[4], c[5])
  \/ enqueue_status_update("proj", "thinking", 41)
  \/ Worker
  \/ JoinCall
  \/ JoinReturn

SpecJoin == InitJoin /\ [][NextJoin]_vars

(* The assistant, the transcript handler, the pane poller and the worker  *)
(* of one chat, whose thread 41 is bound to the window "proj".  The worker *)
(* reads the same pane; its find_window_by_name may fail.                  *)

InitUI == StoreInit /\ MergeIdle /\ QueueInit /\ UiInit /\ LaterInit

NextUI ==
  \/ \E kind \in {"text", "ask"} : ClaudeEmit(kind)
  \/ UserAnswers
  \/ HandleNewMessage("proj", 41)
  \/ HandlerJoined
  \/ HandlerReadPane
  \/ \E o \in Outcomes : HandlerSendUI(o)
  \/ \E o \in Outcomes : HandlerEditUI(o)
  \/ HandlerClear
  \/ PollTick("proj", 41)
  \/ PollRead
  \/ PollClear
  \/ PollReadUI
  \/ \E o \in Outcomes : PollSendUI(o)
  \/ \E o \in Outcomes : PollEditUI(o)
  \/ WorkerGet
  \/ \E o \in Outcomes : WorkerEditToolResult(o)
  \/ \E o \in Outcomes : WorkerConvertStatus(o)
  \/ \E o \in Outcomes : WorkerSendPart(o)
  \/ \E found \in FindResults : WorkerCheckStatus(found, pane)
  \/ \E o \in Outcomes : WorkerSendStatus(o)
  \/ \E o \in Outcomes : WorkerStatusTask(o)
  \/ WorkerSleep

SpecUI == InitUI /\ [][NextUI]_vars

\* The steps of status_poll_loop for the binding.
Poller ==
  \/ PollTick("proj", 41)
  \/ PollRead
  \/ PollClear
  \/ PollReadUI
  \/ \E o \in Outcomes : PollSendUI(o)
  \/ \E o \in Outcomes : PollEditUI(o)


(* Calls of parse_entries on one record sequence: the one-shot call, and
   streaming calls on consecutive batches with the pending tools the monitor
   keeps for the session. *)

RecordShapes ==
  { [type |-> "assistant", blocks |-> <<Block("text", None, None)>>],
    [type |-> "user", blocks |-> <<Block("text", None, None)>>],
    [type |-> "assistant", blocks |-> <<Block("tool_use", "T1", "Bash")>>],
    [type |-> "assistant", blocks |-> <<Block("tool_use", "T2", "ExitPlanMode")>>],
    [type |-> "user", blocks |-> <<Block("tool_result", "T1", None)>>],
    [type |-> "user", blocks |-> <<Block("tool_result", "T2", None)>>],
    [type |-> "assistant", blocks |-> <<Block("tool_use", "T1", "Bash"),
                                         Block("tool_use", "T2", "ExitPlanMode")>>] }

InitParse ==
  /\ StoreInit /\ MergeIdle /\ QueueInit /\ UiInit /\ MonInit /\ TopicIdle
  /\ p_pos = 0 /\ p_events = << >> /\ p_cuts = {} /\ p_oneshot = << >>
  /\ \E n \in 0..MaxRecords : \E shapes \in [1..n -> RecordShapes] :
       p_records = [k \in 1..n |-> Record(shapes[k].type, shapes[k].blocks, k)]

ParseFrame ==
  UNCHANGED <<p_records, session_map, files, tracked_sessions, persisted, dirty,
              file_mtimes, last_session_map, mon, delivered, truncated, next_rec,
              restarts, restVars, storeVars, mergeVars, queueVars, uiVars>>

\* A streaming call on the next n records, as check_for_updates makes it.
StreamParse(n) ==
  /\ p_pos + n <= Len(p_records)
  /\ LET m == CarryParse([MonSt EXCEPT !.mon.new_messages = << >>], "s1",
                         SubSeq(p_records, p_pos + 1, p_pos + n))
     IN /\ pending_tools' = m.pending
        /\ p_events' = p_events \o m.mon.new_messages
  /\ p_pos' = p_pos + n
  /\ p_cuts' = p_cuts \cup {p_pos + n}
  /\ UNCHANGED p_oneshot
  /\ ParseFrame

\* The one-shot call on all the records.
OneShotParse ==
  /\ p_oneshot = << >>
  /\ p_oneshot' = <<parse_entries(p_records, << >>, TRUE).events>>
  /\ UNCHANGED <<p_pos, p_events, p_cuts, pending_tools>>
  /\ ParseFrame

NextParse ==
  \/ \E n \in 0..MaxRecords : StreamParse(n)
  \/ OneShotParse

SpecParse == InitParse /\ [][NextParse]_vars

(* The monitor loop, the assistant, the hook and restarts of the bot. *)

InitMon == StoreInit /\ MergeIdle /\ QueueInit /\ UiInit /\ LaterInit

NextMon ==
  \/ MonStartupCleanup
  \/ MonInitMap
  \/ MonReconcile
  \/ MonScan
  \/ MonOpen
  \/ MonReadLines
  \/ MonDeliver
  \/ MonRestart
  \/ \E sid \in Sessions, tick \in {0, 1} :
       \/ AppendRecord(sid, "assistant", <<Block("text", None, None)>>, 2, tick)
       \/ AppendRecord(sid, "assistant", <<Block("tool_use", "T1", "Bash")>>, 1, tick)
       \/ AppendRecord(sid, "user", <<Block("tool_result", "T1", None)>>, 1, tick)
  \/ \E sid \in Sessions : TruncateFile(sid)
  \/ \E sid \in Sessions : HookWrites("proj", sid)
  \/ MapEntryRemoved("proj")

SpecMon == InitMon /\ [][NextMon]_vars

(* The update handlers, the poller's pass over the bindings, the loading of
   the session map, the hook and the windows.  The bot starts with the
   bindings of its state file; the windows that exist have an entry of the
   hook in the session map, loaded into the window states. *)

\* The session ids the hook writes.
HookSessions == {"s1", "s2"}

InitTopic ==
  /\ MergeIdle /\ QueueInit /\ UiInit /\ ParseIdle /\ MonIdle /\ HandlersIdle
  /\ \E live \in SUBSET Windows :
       /\ mux_windows = live
       /\ session_map = [wn \in live |-> "s1"]
       /\ window_states = [wn \in live |-> "s1"]
  /\ \E bound \in SUBSET Threads : \E b \in [bound -> Windows] :
       /\ thread_bindings = IF bound = {} THEN EmptyDict ELSE [u \in {100} |-> b]
       /\ \E r \in [{b[t] : t \in bound} -> bound] :
            /\ \A wn \in DOMAIN r : b[r[wn]] = wn
            /\ window_to_thread = [k \in {<<100, wn>> : wn \in DOMAIN r} |-> r[k[2]]]

\* Forwarded commands, the hook, and the loading of the session map.
NextClear ==
  \/ \E t \in Threads, cc_slash \in {"/clear", "/compact"} : ForwardStart(100, t, cc_slash)
  \/ ForwardFind
  \/ \E success \in BOOLEAN : ForwardSend(success)
  \/ ForwardReplied
  \/ LoadSessionMap
  \/ \E wn \in Windows, sid \in HookSessions : HookWrites(wn, sid)
  \/ \E wn \in Windows : WindowVanishes(wn)

SpecClear == InitTopic /\ [][NextClear]_vars

\* Texts, closed topics and the poller's pass over the bindings.
NextTopic ==
  \/ \E t \in Threads, is_dir \in BOOLEAN : TextStart(100, t, is_dir)
  \/ TextFind
  \/ \E success \in BOOLEAN : TextSend(success)
  \/ TextNotified
  \/ \E created \in Windows \cup {None} : ReplyCreate(created)
  \/ \E t \in Threads : ClosedStart(100, t)
  \/ ClosedFind
  \/ \E killed \in BOOLEAN : ClosedKill(killed)
  \/ ClosedCleaned
  \/ PollBindings
  \/ PollFind
  \/ PollCleaned
  \/ \E wn \in Windows : WindowVanishes(wn)

SpecTopic == InitTopic /\ [][NextTopic]_vars

\* The topics of the cleanup's runs: two of one chat, and one of another
\* chat whose thread id is that of a topic of the first.
CleanTopics == {<<100, 41>>, <<100, 42>>, <<200, 41>>}

\* The window a topic of CleanTopics is bound to, when it is bound.
CleanWindow(k) == IF k = <<100, 42>> THEN "docs" ELSE "proj"

ToolIds == {"tu1"}

\* What the dictionaries hold for a topic: nothing, a status message and a
\* tool message, an interactive prompt and a suggestion, or all of them.
MemOf(lvl) ==
  LET st == {k \in CleanTopics : lvl[k] \in {"status", "all"}}
      ui == {k \in CleanTopics : lvl[k] \in {"ui", "all"}}
  IN [status_msg_info |-> st,
      tool_msg_ids |-> {<<id, k[1], k[2]>> : id \in ToolIds, k \in st},
      interactive_msgs |-> ui, interactive_mode |-> ui,
      suggestion_msgs |-> ui, suggestion_text |-> ui]

\* Bindings loaded from the state file, windows that exist or not, the
\* dictionaries filled by earlier deliveries, and the pending fields as
\* text_handler leaves them: none, or those of a topic that is not bound.
InitClean ==
  /\ MergeIdle /\ QueueInit /\ UiInit /\ ParseIdle /\ MonIdle
  /\ th = NoUpdate /\ sp = PollerSleeps
  /\ notified = [b \in Users \X Threads |-> 0]
  /\ cleaned = {} /\ cleared = {} /\ PartsIdle
  /\ \E live \in SUBSET Windows :
       /\ mux_windows = live
       /\ session_map = [wn \in live |-> "s1"]
       /\ window_states = [wn \in live |-> "s1"]
  /\ \E bound \in SUBSET CleanTopics :
       /\ thread_bindings =
            [u \in {k[1] : k \in bound} |->
               [t \in {k[2] : k \in {x \in bound : x[1] = u}} |-> CleanWindow(<<u, t>>)]]
       /\ window_to_thread =
            [x \in {<<k[1], CleanWindow(k)>> : k \in bound} |->
               CHOOSE t \in Threads : <<x[1], t>> \in bound /\ CleanWindow(<<x[1], t>>) = x[2]]
       /\ \/ user_data = NoUserData
          \/ \E k \in CleanTopics \ bound :
               user_data = [state |-> "awaiting_path", pending_thread_id |-> k[2],
                            pending_chat |-> k[1]]
  /\ \E lvl \in [CleanTopics -> {"none", "status", "ui", "all"}] : mem = MemOf(lvl)

\* Closed topics and the poller's pass over the bindings.
NextClean ==
  \/ \E c \in Users, t \in Threads : ClosedStart(c, t)
  \/ ClosedFind
  \/ \E killed \in BOOLEAN : ClosedKill(killed)
  \/ ClosedCleaned
  \/ PollBindings
  \/ PollFind
  \/ PollCleaned
  \/ \E wn \in Windows : WindowVanishes(wn)

SpecClean == InitClean /\ [][NextClean]_vars

\* The parts up to the topics at rest.
BaseIdle ==
  /\ MergeIdle /\ QueueInit /\ UiInit /\ StoreInit /\ MonInit /\ ParseIdle
  /\ mux_windows = {} /\ window_states = EmptyDict /\ TopicsQuiet

\* The driver's calls, on a session that has its main tab and, or not, tabs
\* named "proj" and "proj-2".
InitZellij ==
  /\ BaseIdle /\ HookIdle /\ DiskIdle /\ AccessIdle /\ OffsetIdle
  /\ TailIdle
  /\ \E old \in SUBSET {DedupNames[1], DedupNames[2]} :
       z_tabs = [n \in TabNames |-> IF n = MainTab \/ n \in old THEN 1 ELSE 0]
  /\ z_focus = MainTab
  /\ z_lock = 0
  /\ z_ops = [o \in OpIds |-> NoCall]
  /\ z_started = 0
  /\ z_returned = << >>

ZTargets == {DedupNames[1], DedupNames[2]}

NextZellij ==
  \/ \E o \in OpIds, kind \in {"capture_pane", "send_keys", "kill_window"},
        window_id \in ZTargets : ZCall(o, kind, window_id)
  \/ \E o \in OpIds : ZGoToTab(o)
  \/ \E o \in OpIds : ZDumpScreen(o)
  \/ \E o \in OpIds : ZWriteChars(o)
  \/ \E o \in OpIds : ZWriteEnter(o)
  \/ \E o \in OpIds, new_focus \in TabNames : ZCloseTab(o, new_focus)
  \/ \E o \in OpIds : ZCreateWindow(o)
  \/ \E o \in OpIds : ZFindName(o)
  \/ \E o \in OpIds : ZNewTab(o)
  \/ \E o \in OpIds : ZTypeCommand(o)
  \/ \E o \in OpIds : ZCreated(o)

SpecZellij == InitZellij /\ [][NextZellij]_vars

\* Hook invocations side by side, on a map that is empty or holds the entry
\* of an earlier session.
InitHook ==
  /\ MergeIdle /\ QueueInit /\ UiInit /\ StoreInit /\ MonIdle /\ ParseIdle
  /\ mux_windows = {} /\ window_states = EmptyDict /\ TopicsQuiet
  /\ ZIdle /\ HookIdle /\ DiskIdle /\ AccessIdle /\ OffsetIdle
  /\ TailIdle
  /\ session_map \in {EmptyDict, [wn \in {"docs"} |-> "s1"]}

NextHook ==
  \/ \E p \in HookIds, wn \in Windows : HookInvoked(p, wn)
  \/ \E p \in HookIds : HookLock(p)
  \/ \E p \in HookIds : HookRead(p)
  \/ \E p \in HookIds : WriteTmp(p)
  \/ \E p \in HookIds : FsyncTmp(p)
  \/ \E p \in HookIds : RenameTmp(p)
  \/ \E p \in HookIds : HookUnlock(p)
  \/ MainReadsMap

SpecHook == InitHook /\ [][NextHook]_vars

\* The operations of the store, from an empty store and a session map
\* that holds no window, one, or both.
InitStore ==
  /\ MergeIdle /\ QueueInit /\ UiInit /\ StoreInit /\ MonIdle /\ ParseIdle
  /\ mux_windows = {} /\ window_states = EmptyDict /\ TopicsQuiet
  /\ ZIdle /\ HookIdle /\ DiskIdle /\ AccessIdle /\ OffsetIdle
  /\ TailIdle
  /\ \E live \in SUBSET Windows : session_map = [wn \in live |-> "s1"]

NextStore ==
  \/ \E u \in {100}, t \in Threads, wn \in Windows : StoreBind(u, t, wn)
  \/ \E u \in {100}, t \in Threads : StoreUnbind(u, t)
  \/ \E u \in Users, off \in OffsetValues : StoreOffset(u, "proj", off)
  \/ \E wn \in Windows : StoreClear(wn)
  \/ \E wn \in Windows, file_exists \in BOOLEAN : resolve_session_for_window(wn, file_exists)
  \/ StoreLoadMap

SpecStore == InitStore /\ [][NextStore]_vars

\* The updates of an allowed user, of another user and of no user, in the
\* topics of one chat.
NextAccess ==
  \/ \E u \in UpdateUsers, t \in Threads, is_dir \in BOOLEAN : text_handler(u, 100, t, is_dir)
  \/ TextFind
  \/ \E success \in BOOLEAN : TextSend(success)
  \/ TextNotified
  \/ \E created \in Windows \cup {None} : ReplyCreate(created)
  \/ \E u \in UpdateUsers, t \in Threads : topic_closed_handler(u, 100, t)
  \/ ClosedFind
  \/ \E killed \in BOOLEAN : ClosedKill(killed)
  \/ ClosedCleaned
  \/ \E u \in UpdateUsers, t \in Threads, cc_slash \in {"/clear", "/compact"} :
       forward_command_handler(u, 100, t, cc_slash)
  \/ ForwardFind
  \/ \E success \in BOOLEAN : ForwardSend(success)
  \/ ForwardReplied
  \/ \E wn \in Windows : WindowVanishes(wn)

SpecAccess == InitTopic /\ [][NextAccess]_vars

\* A transcript that grows, is read, handled and delivered.
InitOffset ==
  /\ MergeIdle /\ QueueInit /\ UiInit /\ ParseIdle /\ MonIdle /\ TopicsQuiet
  /\ ZIdle /\ HookIdle /\ AccessIdle /\ OffsetIdle
  /\ TailIdle
  /\ mux_windows = {"proj"}
  /\ session_map = [wn \in {"proj"} |-> "s1"]
  /\ window_states = session_map
  /\ thread_bindings = [u \in {100} |-> [t \in {41} |-> "proj"]]
  /\ window_to_thread = [k \in {<<100, "proj">>} |-> 41]
  /\ user_window_offsets = EmptyDict
  /\ state_file = _save_state(window_states, user_window_offsets, thread_bindings)

NextOffset ==
  \/ \E rec \in Records : TranscriptWrites(rec)
  \/ MonitorReads
  \/ HandleEnqueues
  \/ \E found \in BOOLEAN : HandleSetsOffset(found)
  \/ \E success \in BOOLEAN : WorkerSends(success)

SpecOffset == InitOffset /\ [][NextOffset]_vars

\* The map file changes by one entry at a time, or as a whole; the store
\* starts empty and loads the map again and again.
InitMap ==
  /\ MergeIdle /\ QueueInit /\ UiInit /\ StoreInit /\ MonIdle /\ ParseIdle
  /\ mux_windows = {} /\ window_states = EmptyDict /\ TopicsQuiet
  /\ ZIdle /\ HookIdle /\ DiskIdle /\ AccessIdle /\ OffsetIdle
  /\ session_map = EmptyDict
  /\ TailIdle

NextMap ==
  \/ load_session_map
  \/ \E key \in MapKeys, info \in MapInfos :
       MapFileWritten(MapFileOf(DictSet(map_file.map, key, info)))
  \/ \E key \in MapKeys :
       /\ map_file.kind = "json"
       /\ MapFileWritten(MapFileOf(DictPop(map_file.map, key)))
  \/ \E new \in {NoMapFile, BrokenMapFile} : MapFileWritten(new)
  \/ \E wn \in MapWindows : GetWindowState(wn)

SpecMap == InitMap /\ [][NextMap]_vars

\* The two background loops, the errors of their calls and the state of
\* the transcript files.
InitLoops ==
  /\ MergeIdle /\ QueueInit /\ UiInit /\ StoreInit /\ MonIdle /\ ParseIdle
  /\ mux_windows = {} /\ window_states = EmptyDict /\ TopicsQuiet
  /\ PartsIdle
  /\ session_map = EmptyDict

NextLoops ==
  \/ PollLoopWake
  \/ \E error \in Errors \cup {None} : PollLoopBinding(error)
  \/ PollLoopSleep
  \/ \E error \in Errors \cup {None} : MonLoopWake(error)
  \/ MonLoopSession
  \/ \E error \in Errors \cup {None} : MonLoopCallback(error)
  \/ MonLoopSleep
  \/ \E sid \in {"s1", "s2"}, health \in Healths : TranscriptHealth(sid, health)

SpecLoops == InitLoops /\ [][NextLoops]_vars

\* Topic 41 of chat 100 is bound to window "proj".  Content arrives for it
\* and the poller looks at its pane while the user writes in the topic,
\* closes it, or the window goes away.  The topic is not bound again.
InitDeliver ==
  /\ MergeIdle /\ QueueInit /\ UiInit /\ ParseIdle /\ MonIdle /\ HandlersIdle
  /\ mux_windows = {"proj"}
  /\ session_map = [wn \in {"proj"} |-> "s1"]
  /\ window_states = [wn \in {"proj"} |-> "s1"]
  /\ thread_bindings = [u \in {100} |-> [t \in {41} |-> "proj"]]
  /\ window_to_thread = [k \in {<<100, "proj">>} |-> 41]

NextDeliver ==
  \/ \E kind \in {"text", "tool_use"} : TopicContent(kind)
  \/ \E same_text \in BOOLEAN : DelivGet(same_text)
  \/ \E ok \in BOOLEAN : DelivStatusSent(ok)
  \/ \E ok \in BOOLEAN : DelivStatusEdited(ok)
  \/ \E ok \in BOOLEAN : DelivCleared(ok)
  \/ \E ok \in BOOLEAN : DelivConverted(ok)
  \/ \E ok \in BOOLEAN : DelivContentSent(ok)
  \/ DelivCheckFound
  \/ \E has_status \in BOOLEAN : DelivCheckCaptured(has_status)
  \/ TopicPollTick
  \/ TopicPollFound
  \/ \E pane_text \in {"blank", "status", "ui"} : TopicPollCaptured(pane_text)
  \/ TopicUiFound
  \/ \E pane_text \in {"blank", "ui"} : TopicUiCaptured(pane_text)
  \/ \E ok \in BOOLEAN : TopicUiSent(ok)
  \/ TextStart(100, 41, FALSE)
  \/ TextFind
  \/ \E success \in BOOLEAN : TextSend(success)
  \/ TextNotified
  \/ ClosedStart(100, 41)
  \/ ClosedFind
  \/ \E killed \in BOOLEAN : ClosedKill(killed)
  \/ ClosedCleaned
  \/ dp.pc = "idle" /\ PollBindings
  \/ PollFind
  \/ PollCleaned
  \/ WindowVanishes("proj")

SpecDeliver == InitDeliver /\ [][NextDeliver]_vars

\* The threads of the tasks of a merge call: two topics of the chat.
MergeThreads == {41, 42}

\* A merge call on the tasks of two topics: texts of the two windows, short
\* and long, a tool_use and a status update, each for one of the topics.
ThreadShapes ==
  {sh \in MergeShapes : sh.lens \in {<<600>>, <<1901>>, << >>}
                          \/ sh.content_type = "tool_use"}

InitMergeThreads ==
  /\ StoreInit /\ QueueInit /\ UiInit /\ LaterInit
  /\ m_result = << >>
  /\ \E first \in {sh \in ThreadShapes : sh.task_type = "content"}, t \in MergeThreads :
       m_first = [ShapeTask(1, first) EXCEPT !.thread_id = t]
  /\ \E n \in 0..MaxItems :
       \E shapes \in [1..n -> ThreadShapes], threads \in [1..n -> MergeThreads] :
         m_items = [k \in 1..n |-> [ShapeTask(k + 1, shapes[k]) EXCEPT
                                       !.thread_id = threads[k]]]

SpecMergeThreads == InitMergeThreads /\ [][NextMerge]_vars

(***************************************************************************)
(* Part 9.  Properties.                                                    *)
(***************************************************************************)

(* ----- The session store (SpecBind) ----- *)

\* C1: after every bind_thread / unbind_thread call the reverse index and
\* the forward bindings agree: get_thread_for_window(c, w) = t if and only
\* if get_window_for_thread(c, t) = w.
C1_ReverseIndexAgrees ==
  \A c \in Users, t \in Threads, wn \in Windows :
    (get_thread_for_window(c, wn) = t) <=> (get_window_for_thread(c, t) = wn)

\* C2: the store keeps at most one topic per window: no two different
\* threads of one chat are bound to the same window name.
C2_OneTopicPerWindow ==
  \A b \in iter_thread_bindings, c \in iter_thread_bindings :
    (b[1] = c[1] /\ b[3] = c[3]) => b[2] = c[2]

(* ----- One merge call (SpecMerge) ----- *)

\* The parts of the first n items, in queue order.
RECURSIVE PartsOfPrefix(_, _)
PartsOfPrefix(items, n) ==
  IF n = 0 THEN << >> ELSE PartsOfPrefix(items, n - 1) \o items[n].parts

IsToolType(content_type) == content_type \in {"tool_use", "tool_result"}

\* C7: the merged parts are the base task's parts followed by the parts of
\* each absorbed task in queue order, and their total length is at most
\* MERGE_MAX_LENGTH plus the length of any one of the merged tasks.
C7_MergeLaw ==
  m_result # << >> =>
    LET r == m_result[1]
        n == r.merge_count
        total == PartsLength(r.merged_task.parts)
    IN /\ r.merged_task.parts = m_first.parts \o PartsOfPrefix(m_items, n)
       /\ total <= MERGE_MAX_LENGTH + PartsLength(m_first.parts)
       /\ \A k \in 1..n : total <= MERGE_MAX_LENGTH + PartsLength(m_items[k].parts)

\* Three tasks, one of them of two parts, were merged into one.
C7_Witness ==
  /\ m_result # << >>
  /\ m_result[1].merge_count = 2
  /\ Len(m_first.parts) = 2
  /\ Len(m_result[1].merged_task.parts) = 4

\* C8: a queued task is absorbed only if it is a content task of the base
\* task's window and neither of the two is a tool_use or a tool_result;
\* absorption stops at the first queued task that fails the test (or is too
\* long), and what follows stays in the queue in its order.
C8_AbsorbOnlyMergeable ==
  m_result # << >> =>
    LET r == m_result[1]
        n == r.merge_count
    IN /\ \A k \in 1..n :
            /\ m_items[k].task_type = "content"
            /\ m_items[k].window_name = m_first.window_name
            /\ ~ IsToolType(m_items[k].content_type)
            /\ ~ IsToolType(m_first.content_type)
       /\ n <= Len(m_items)
       /\ r.remaining = SubSeq(m_items, n + 1, Len(m_items))
       /\ n < Len(m_items) =>
            \/ m_items[n + 1].task_type # "content"
            \/ m_items[n + 1].window_name # m_first.window_name
            \/ IsToolType(m_items[n + 1].content_type)
            \/ IsToolType(m_first.content_type)
            \/ PartsLength(m_first.parts \o PartsOfPrefix(m_items, n + 1)) > MERGE_MAX_LENGTH
       /\ (IsToolType(m_first.content_type) => r.merged_task = m_first)

\* A text was absorbed and the tool_use behind it stopped the absorption,
\* although the text behind the tool_use would have fitted.
C8_Witness ==
  /\ m_result # << >>
  /\ Len(m_items) = 2
  /\ m_result[1].merge_count = 1
  /\ Len(m_result[1].remaining) = 1
  /\ m_result[1].remaining[1].content_type = "tool_use"
  /\ m_result[1].remaining[1].window_name = m_first.window_name

(* ----- The queue and its worker (SpecQueue, SpecJoin) ----- *)

WorkerBusy == w.pc # "idle"

\* The enqueue numbers of the task the worker is processing.
CurrentIds == IF WorkerBusy THEN {w.task.ids[k] : k \in 1..Len(w.task.ids)} ELSE {}

\* The enqueue numbers of the tasks in the queue.
QueuedIds == {queue[k].ids[1] : k \in 1..Len(queue)}

Enqueued == 1..(next_id - 1)

\* The tasks whose content a logged platform call delivered.
SrcsOf(op) == {op.src[k] : k \in 1..Len(op.src)}

\* C3: delivery is FIFO.  The queue holds its tasks in enqueue order, also
\* after a put-back; the worker's task (the merged tasks, in order) comes
\* before all of them and after every finished task; a send or edit for a
\* task happens only when every task enqueued before it is finished or
\* merged into the same task; and the content reaches the chat in enqueue
\* order.
C3_Fifo ==
  /\ \A j, k \in 1..Len(queue) : j < k => queue[j].ids[1] < queue[k].ids[1]
  /\ \A a \in done \cup CurrentIds, b \in QueuedIds : a < b
  /\ \A a \in done, b \in CurrentIds : a < b
  /\ WorkerBusy => \A j, k \in 1..Len(w.task.ids) : j < k => w.task.ids[j] < w.task.ids[k]
  /\ WorkerBusy => \A k \in 1..Len(w.task.parts) :
                      /\ w.task.parts[k].src \in CurrentIds
                      /\ \A j \in 1..k : w.task.parts[j].src <= w.task.parts[k].src
  /\ done \cup CurrentIds \cup QueuedIds = Enqueued
  /\ \A k \in 1..Len(ops) :
       /\ SrcsOf(ops[k]) \subseteq done \cup CurrentIds
       /\ \A j \in 1..k : \A a \in SrcsOf(ops[j]), b \in SrcsOf(ops[k]) : a <= b

\* The worker sends the second part of a task merged from two, after it put
\* a third task back into the queue; the first part is delivered.
C3_Witness ==
  /\ w.pc = "send"
  /\ w.merge_count = 1
  /\ w.put_back = 1
  /\ w.i = 2
  /\ Len(queue) = 1
  /\ Len(ops) = 1
  /\ ops[1].src = <<1>>

\* C4: after the sleep that follows RetryAfter the worker retries the task
\* it was processing: the task is not given up.
C4_RetriesSameTask ==
  [][(w.pc = "sleep" /\ w'.pc # "sleep") => (w'.pc # "idle" /\ w'.task = w.task)]_vars

\* C9: a tool_result whose tool_use message is recorded has the entry
\* removed, and it is not sent as a new message -- unless both edit calls
\* failed, the fall-through the specification describes.
C9_ToolResultEditsRecorded ==
  (WorkerBusy /\ w.task.content_type = "tool_result" /\ w.edit_msg_id # NoMessage) =>
    /\ <<w.task.tool_use_id, ThreadOr0(w.task.thread_id)>> \notin DOMAIN tool_msg_ids
    /\ w.pc \in {"cv_delete", "cv_edit", "cv_edit_plain", "send", "send_plain"}
         => w.edit_errors = 2

\* The worker is at queue.get() with a task to take, or at one of the awaits
\* of a task's processing, from which it resumes.
WorkerCanStep ==
  \/ w.pc = "idle" /\ queue # << >>
  \/ w.pc \in {"tr_clear", "tr_edit", "tr_edit_plain"}
  \/ w.pc \in {"cv_delete", "cv_edit", "cv_edit_plain"}
  \/ w.pc \in {"send", "send_plain"}
  \/ w.pc \in {"cs_find", "cs_capture"}
  \/ w.pc \in {"st_send", "st_send_plain"}
  \/ w.pc \in {"sc_clear", "su_clear", "su_edit", "su_edit_plain"}
  \/ w.pc = "sleep"

\* C10: an error other than RetryAfter does not block the queue.  The task
\* it hit is finished unless the worker is still sending its other parts, no
\* task is lost, and while a task is queued or in progress the worker can
\* take its next step.
C10_ErrorDoesNotBlock ==
  /\ last_failed \subseteq done \cup CurrentIds
  /\ done \cup CurrentIds \cup QueuedIds = Enqueued
  /\ (WorkerBusy \/ queue # << >>) => WorkerCanStep

\* A send was given up after an error, its task is finished, and content
\* of a task enqueued behind it reached the chat.
C10_Witness ==
  /\ last_failed # {}
  /\ last_failed \subseteq done
  /\ \E k \in 1..Len(ops) : \E b \in SrcsOf(ops[k]) : \A a \in last_failed : a < b

\* C6 as stated: join() does not return while a task enqueued before the
\* call is unprocessed, and it returns once they all are processed: it is not
\* found waiting with all of them done.
C6_ReturnsOnceEarlierDone ==
  /\ join_state = "released" => join_before \subseteq done
  /\ join_state = "waiting" => \E id \in join_before : id \notin done

\* C6, amended: the unfinished count is the number of tasks queued or in
\* progress, whatever was merged or put back; join() does not return while a
\* task enqueued before the call is unprocessed; and it waits exactly as long
\* as some task enqueued so far, before or after the call, is unprocessed.
C6_JoinCoherent ==
  /\ unfinished = Len(queue) + (IF WorkerBusy THEN 1 ELSE 0)
  /\ join_state = "released" => join_before \subseteq done
  /\ join_state = "waiting" => unfinished > 0 /\ Enqueued \ done # {}
  /\ join_state = "released" => unfinished = 0 \/ Enqueued \ join_before # {}

\* join() waits for three tasks while the worker processes the first two,
\* merged into one, and has put the third back.
C6_Witness ==
  /\ join_state = "waiting"
  /\ join_before = {1, 2, 3}
  /\ w.merge_count = 1
  /\ w.put_back = 1
  /\ unfinished = 2

(* ----- Interactive prompts (SpecUI) ----- *)

\* C5: the keyboard message of an interactive tool's prompt is not sent
\* while a text enqueued before it is still queued or in progress and has
\* not reached the chat, whatever the interleaving of the handler, the
\* worker and the poller.
C5_KeyboardAfterContent == overtaken = {}

(* ----- The status check after a content task (SpecQueue) ----- *)

\* C11: the status check that follows the last part of a content task
\* starts sending a status message only when the queue is empty: the step
\* from the pane capture to the send is not taken while a task is pending,
\* a task enqueued during the capture included.
C11_StatusOnlyWhenQueueEmpty ==
  [][(w.pc = "cs_capture" /\ w'.pc = "st_send") => queue = << >>]_vars

(* ----- The transcript parser (SpecParse) ----- *)

\* The blocks of a record sequence, in order.
RECURSIVE BlocksOf(_)
BlocksOf(records) ==
  IF records = << >> THEN << >>
  ELSE (IF Head(records).type \in {"user", "assistant"} THEN Head(records).blocks
        ELSE << >>) \o BlocksOf(Tail(records))

\* The positions of the blocks (or events) of a kind with a tool_use id.
At(seq, field, kind, id) ==
  {k \in 1..Len(seq) : seq[k][field] = kind /\ seq[k][IF field = "type" THEN "id" ELSE "tool_use_id"] = id}

\* Tool-use and tool-result records are matched by id: an id that occurs
\* has one tool_use and one tool_result, the tool_use first.
Matched(records) ==
  LET bs == BlocksOf(records)
  IN \A id \in {"T1", "T2"} :
       LET uses == At(bs, "type", "tool_use", id)
           results == At(bs, "type", "tool_result", id)
       IN \/ uses = {} /\ results = {}
          \/ /\ Cardinality(uses) = 1 /\ Cardinality(results) = 1
             /\ \A u \in uses, r \in results : u < r

\* One tool_use event and one tool_result event for each id of the records.
OnePerId(events, records) ==
  \A id \in {"T1", "T2"} :
    LET n == IF At(BlocksOf(records), "type", "tool_use", id) = {} THEN 0 ELSE 1
    IN /\ Cardinality(At(events, "content_type", "tool_use", id)) = n
       /\ Cardinality(At(events, "content_type", "tool_result", id)) = n

\* Every tool_result event follows a tool_use event of its id, with no other
\* tool_result of the id in between: its tool use was pending.
NoOrphanResult(events) ==
  \A k \in 1..Len(events) :
    events[k].content_type = "tool_result" =>
      \E j \in 1..(k - 1) :
        /\ events[j].content_type = "tool_use"
        /\ events[j].tool_use_id = events[k].tool_use_id
        /\ \A i \in (j + 1)..(k - 1) :
             ~(events[i].content_type = "tool_result"
               /\ events[i].tool_use_id = events[k].tool_use_id)

\* C15: for a record sequence whose tool uses and tool results are matched
\* by id, the one-shot call and the streaming calls emit one tool_use and one
\* tool_result event per id; and for any sequence a tool_result whose tool
\* use is not pending is not emitted.
C15_OneUseOneResultPerId ==
  /\ NoOrphanResult(p_events)
  /\ p_oneshot # << >> => NoOrphanResult(p_oneshot[1])
  /\ Matched(p_records) =>
       /\ p_pos = Len(p_records) => OnePerId(p_events, p_records)
       /\ p_oneshot # << >> => OnePerId(p_oneshot[1], p_records)

\* Two matched pairs were parsed by the one-shot call and by streaming calls
\* that separate each tool use from its result.
C15_Witness ==
  /\ Matched(p_records)
  /\ Len(p_records) = 3
  /\ At(BlocksOf(p_records), "type", "tool_use", "T1") = {1}
  /\ At(BlocksOf(p_records), "type", "tool_use", "T2") = {2}
  /\ At(BlocksOf(p_records), "type", "tool_result", "T2") = {3}
  /\ At(BlocksOf(p_records), "type", "tool_result", "T1") = {4}
  /\ p_pos = 3
  /\ p_cuts = {1, 2, 3}
  /\ p_oneshot # << >>

\* C16: in streaming mode, parsing the records batch after batch with the
\* pending tools carried over gives the events, and leaves the pending tools,
\* of one call on the concatenation of the batches, wherever the batches are
\* cut.
C16_ConcatenationEquivalence ==
  LET r == parse_entries(SubSeq(p_records, 1, p_pos), << >>, FALSE)
  IN /\ p_events = [k \in 1..Len(r.events) |-> NewMessage("s1", r.events[k])]
     /\ DictGet(pending_tools, "s1", << >>) = r.pending

\* A tool result that came two calls after its tool use was paired with it.
C16_Witness ==
  /\ p_cuts = {1, 2, 3}
  /\ p_pos = 3
  /\ p_records[1].blocks[1].type = "tool_use"
  /\ p_records[3].blocks[1].type = "tool_result"
  /\ p_records[3].blocks[1].id = p_records[1].blocks[1].id
  /\ p_events[Len(p_events)].content_type = "tool_result"
  /\ pending_tools = EmptyDict

(* ----- The session monitor (SpecMon) ----- *)

\* C12: for a session whose file was never truncated, the callback gets each
\* event at most once and in the order of the file, across polls, appends
\* and a restart of the bot.
C12_AtMostOnceInOrder ==
  \A i, j \in 1..Len(delivered) :
    (/\ i < j
     /\ delivered[i].msg.session_id = delivered[j].msg.session_id
     /\ delivered[i].msg.session_id \notin truncated)
      => delivered[i].msg.src < delivered[j].msg.src

\* Two events of a session that was never truncated were delivered, one
\* before and one after a restart.
C12_Witness ==
  \E i, j \in 1..Len(delivered) :
    /\ i < j
    /\ delivered[i].msg.session_id = delivered[j].msg.session_id
    /\ delivered[i].msg.session_id \notin truncated
    /\ delivered[i].run = 0
    /\ delivered[j].run = 1

\* C13: when the file of a tracked session is shorter than the stored
\* offset, the read of the session resets the offset to 0, and returns all
\* the records of the file, leaving the offset at its end.
C13_TruncationResets ==
  [][/\ (mon.pc = "open" /\ mon'.pc = "read"
            /\ tracked_sessions[mon.sid] > FileSize(files[mon.sid].recs))
          => tracked_sessions'[mon.sid] = 0
     /\ (mon.pc = "read" /\ mon.reset /\ mon'.pc \notin {"read", "start"})
          => /\ mon'.last_read = files[mon.sid].recs
             /\ tracked_sessions'[mon.sid] = FileSize(files[mon.sid].recs)]_vars

\* A file was truncated below the offset and written again; the read that
\* reset the offset returned records, and their messages are to be delivered.
C13_Witness ==
  /\ mon.pc = "deliver"
  /\ mon.reset
  /\ mon.last_read # << >>
  /\ \E k \in 1..Len(mon.new_messages) : mon.new_messages[k].session_id \in truncated

\* C14: after the startup cleanup, and after every reconciliation step,
\* every tracked session is a session of the session map the step read, and
\* so is every session with a cached mtime.
C14_TrackedInSessionMap ==
  /\ mon.pc = "init_map" =>
       /\ DOMAIN tracked_sessions \subseteq mon.active
       /\ DOMAIN file_mtimes \subseteq mon.active
  /\ mon.pc = "scan" =>
       /\ DOMAIN tracked_sessions \subseteq Values(last_session_map)
       /\ DOMAIN file_mtimes \subseteq Values(last_session_map)

(* ----- Topics and windows (SpecClear, SpecTopic) ----- *)

\* C17: after a /clear was forwarded to a window, the session id of the
\* window is empty, and stays empty until the hook writes a session-map entry
\* with a new session id for the window.
C17_ClearedUntilHookWrites ==
  \A wn \in cleared : DictGet(window_states, wn, "") = ""

\* C18: in the directory-reply flow, once the window is created the handler
\* waits for the hook's session-map entry, and the wait ends, found or timed
\* out, with the handler going on to bind the thread: it accepts an entry
\* only when its session id differs from the one the window had before.
C18_WaitThenBind ==
  [][/\ (th.pc = "rp_create" /\ mux_windows' # mux_windows) => th'.pc = "rp_wait"
     /\ (th.pc = "rp_wait" /\ th'.pc # "rp_wait") => th'.pc = "rp_bind"]_vars

\* C19: when a component has found that the window of a binding is gone and
\* has dealt with it, the thread is unbound, the topic's state has been
\* cleared, and the user has been told once.
C19_StaleBindingHandled ==
  [][LET Handled(b) ==
           /\ \A x \in iter_thread_bindings' : ~(x[1] = b[1] /\ x[2] = b[2])
           /\ \E x \in cleaned' : x[1] = b[1] /\ x[2] = b[2]
           /\ notified'[b] = 1
     IN /\ (th.pc = "tx_notify" /\ th'.pc = "idle") => Handled(<<th.chat, th.thread>>)
        /\ (sp.pc = "clean" /\ sp'.pc # "clean") => Handled(<<sp.cur[1], sp.cur[2]>>)]_vars

EntriesOf(m, chat_id, thread_id) ==
  [status |-> <<chat_id, thread_id>> \in m.status_msg_info,
   tools |-> {key \in m.tool_msg_ids : key[2] = chat_id /\ key[3] = thread_id},
   ui_msg |-> <<chat_id, thread_id>> \in m.interactive_msgs,
   ui_mode |-> <<chat_id, thread_id>> \in m.interactive_mode,
   sug_msg |-> <<chat_id, thread_id>> \in m.suggestion_msgs,
   sug_text |-> <<chat_id, thread_id>> \in m.suggestion_text]

NoEntries ==
  [status |-> FALSE, tools |-> {}, ui_msg |-> FALSE, ui_mode |-> FALSE,
   sug_msg |-> FALSE, sug_text |-> FALSE]

\* The pending-thread fields are those of the topic (chat_id, thread_id).
PendingRefers(ud, chat_id, thread_id) ==
  ud.pending_thread_id = thread_id /\ ud.pending_chat = chat_id

\* A step of the cleanup of (chat_id, thread_id) leaves what belongs to the
\* other topics as it was.
OthersKept(chat_id, thread_id) ==
  /\ \A k \in (Users \X Threads) \ {<<chat_id, thread_id>>} :
       EntriesOf(mem', k[1], k[2]) = EntriesOf(mem, k[1], k[2])
  /\ ~PendingRefers(user_data, chat_id, thread_id) => user_data' = user_data

\* A cleanup that returns has left nothing of its topic.
CleanupRemoves ==
  \A e \in cleaned' \ cleaned :
    /\ EntriesOf(mem', e[1], e[2]) = NoEntries
    /\ ~PendingRefers(user_data', e[1], e[2])

\* C21: when clear_topic_state(chat, thread) returns, the dictionaries hold
\* no status tracking, no tool message id, no interactive prompt for the
\* topic and the pending-thread fields are not those of the topic; and no
\* step of it changes what the dictionaries hold for another topic or the
\* pending-thread fields of another topic.
C21_TopicCleanup ==
  [][ /\ CleanupRemoves
      /\ (th.pc \in {"tc_clean", "del_ui", "del_sug"} /\ th' # th)
           => OthersKept(th.chat, th.thread)
      /\ (sp.pc \in {"clean", "del_ui", "del_sug"} /\ sp' # sp)
           => OthersKept(sp.cur[1], sp.cur[2]) ]_vars

(* ----- The Zellij driver (SpecZellij) ----- *)

\* The call has moved the focus to its tab (go-to-tab-name, or new-tab) and
\* has yet to issue an action that acts on the focused tab.
InsideFocus(call) == call.pc \in {"dump-screen", "write-chars", "write", "close-tab"}

\* The step is a zellij action of call o that moves the focus or acts on the
\* focused tab.
IssuesAction(o) == z_ops'[o] # z_ops[o] /\ z_ops[o].pc \notin {"idle", "find"}

\* C22: no zellij action of one call is issued between another call's
\* go-to-tab step and the action of that call that relies on the focus, for
\* capture_pane, send_keys, kill_window and create_window calls that run
\* side by side.
C22_FocusSerialized ==
  [][ \A a \in OpIds, b \in OpIds :
        (a # b /\ IssuesAction(a)) => ~InsideFocus(z_ops[b]) ]_vars

\* C23: the name a create_window call returns is the base name or the base
\* name with a suffix -2, -3, ..., and no two tabs carry the same name,
\* whatever calls of the driver run side by side, two create_window calls
\* for the same directory included.
C23_NamesDeduplicated ==
  /\ \A i \in 1..Len(z_returned) : z_returned[i] \in TabNames \ {MainTab}
  /\ \A n \in TabNames : z_tabs[n] <= 1

(* ----- The hook (SpecHook) ----- *)

\* The invocations that have finished.
HooksDone == {p \in HookIds : hk[p].pc = "done"}

\* The read-modify-write section of an invocation: from the read of the map
\* to the rename.
InSection(p) == hk[p].pc \in {"read", "write_tmp", "fsync", "rename", "unlock"}

\* C24: the read-modify-write sections of hook invocations that run side by
\* side never overlap; the write of an invocation changes the map by its
\* own entry only, so that once invocations have finished the map holds an
\* entry for the window of each, and no entry is ever lost; the map is
\* never written in part, and every read of the main process gives a map
\* that parses.
C24_HookWritesCoordinated ==
  [][ /\ \A p \in HookIds, q \in HookIds :
           (p # q /\ InSection(p)') => ~InSection(q)'
      /\ \A p \in HookIds :
           (hk[p].pc = "rename" /\ hk'[p].pc = "unlock")
             => session_map' = DictSet(session_map, hk[p].key, HookSession(p))
      /\ \A p \in HooksDone' : hk'[p].key \in DOMAIN session_map'
      /\ DOMAIN session_map \subseteq DOMAIN session_map'
      /\ ~map_torn' /\ main_read'.parsed ]_vars

\* Two invocations have finished, for two windows, while a third is in its
\* section after having waited for the lock, and the map holds the entries
\* of the first two next to the entry it held before.
C24_Witness ==
  /\ HooksDone = {1, 2}
  /\ hk[3].pc = "fsync" /\ hk[3].key = "docs"
  /\ hk[3].session_map = DictSet(session_map, "docs", HookSession(3))
  /\ tmp_file.torn
  /\ main_read.session_map = session_map
  /\ hk[1].key = "proj" /\ hk[2].key = "proj"
  /\ session_map = [wn \in {"proj", "docs"} |-> IF wn = "proj" THEN HookSession(2) ELSE "s1"]

(* ----- The state file (SpecStore) ----- *)

\* C25: after every operation of the store the state file holds the window
\* states, the read offsets and the bindings that the store holds in
\* memory.
C25_WriteThrough ==
  state_file = _save_state(window_states, user_window_offsets, thread_bindings)

\* The public state of a store that was loaded from the state file that a
\* save of the present state writes.
Reloaded ==
  _load_state(_save_state(window_states, user_window_offsets, thread_bindings))

\* C26: for every state the store reaches, a fresh store loaded from the
\* saved state has the same window states, read offsets and bindings, and
\* gives the same answers to get_window_for_thread and
\* get_thread_for_window (its reverse index, rebuilt from the bindings, is
\* the one in memory).
C26_SaveLoadIdentity ==
  /\ Reloaded.window_states = window_states
  /\ Reloaded.user_window_offsets = user_window_offsets
  /\ Reloaded.thread_bindings = thread_bindings
  /\ window_to_thread \in _rebuild_reverse_index(Reloaded.thread_bindings)

(* ----- The allowed users and the forwarding of texts (SpecAccess) ----- *)

\* A handler is called for an update of user_id.
UpdateOf(user_id) ==
  \/ \E t \in Threads, is_dir \in BOOLEAN : text_handler(user_id, 100, t, is_dir)
  \/ \E t \in Threads : topic_closed_handler(user_id, 100, t)
  \/ \E t \in Threads, cc_slash \in {"/clear", "/compact"} :
       forward_command_handler(user_id, 100, t, cc_slash)

\* C27: a handler that is called for an update of a user outside the
\* allowed set (or of no user) ends at once: no keys are sent, no window is
\* made or killed, no binding, window state, dialogue state or dictionary
\* changes, and no handler is left running that could do so later.
C27_OthersRefused ==
  [][\A u \in UpdateUsers \ allowed_users :
       UpdateOf(u) =>
         /\ th'.pc = "idle"
         /\ UNCHANGED <<th, keys_sent, mux_windows, storeVars, window_states, session_map,
                        user_data, mem, diskVars>>]_vars

\* Updates of another user and of no user were refused while a topic was
\* bound to a window that exists, after keys had gone to a window for the
\* allowed user.
C27_Witness ==
  /\ {0, 300} \subseteq refused
  /\ keys_sent # {}
  /\ \E t \in Threads : /\ get_window_for_thread(100, t) # None
                        /\ get_window_for_thread(100, t) \in mux_windows

\* C28: when text_handler is called for a text of an allowed user in a
\* topic that is bound to a window that exists, the handler goes on to
\* forward the text to that window, whatever the dialogue state of the user
\* is; and the keys of a text only ever go to the window the handler
\* resolved for its topic.
C28_TextForwarded ==
  [][/\ \A t \in Threads, is_dir \in BOOLEAN :
          (/\ text_handler(100, 100, t, is_dir)
           /\ get_window_for_thread(100, t) # None
           /\ get_window_for_thread(100, t) \in mux_windows)
          => /\ th'.pc = "tx_find"
             /\ th'.thread = t
             /\ th'.wname = get_window_for_thread(100, t)
     /\ \A success \in BOOLEAN :
          TextSend(success) => keys_sent' \subseteq keys_sent \cup {<<th.chat, th.thread, th.wname>>}]_vars

(* ----- The read offset (SpecOffset) ----- *)

\* The read offset stored for chat 100 and window "proj", 0 if none is.
StoredOffset == DictGet(DictGet(user_window_offsets, 100, EmptyDict), "proj", 0)

\* C29: every byte below the read offset stored for (chat, window) belongs
\* to a record whose message was sent to the chat, or that gave no message.
C29_OffsetDelivered ==
  \A i \in 1..Len(t_file) :
    StartOf(i) < StoredOffset => (t_file[i].kind = "meta" \/ i \in t_sent)

(* ----- The poller and the queue (SpecUI) ----- *)

\* The poller enqueues a status update in this step.
PollerUpdatesStatus ==
  /\ PollRead \/ PollClear
  /\ next_id' # next_id

\* The poller's send or edit of a keyboard message succeeds in this step.
PollerSendsUI == PollSendUI("ok") \/ PollEditUI("ok")

\* C30: the poller starts its work for the chat only in a tick in which the
\* chat's queue is empty, and it makes no status update and sends or edits
\* no keyboard message for the chat while a task waits in the chat's queue.
C30_PollerYields ==
  [][/\ PollTick("proj", 41) => queue = << >>
     /\ (PollerUpdatesStatus \/ PollerSendsUI) => queue = << >>]_vars

(* ----- The poller and a prompt that is gone (SpecUI) ----- *)

\* The poller has the pane, the topic is in interactive mode for the
\* poller's window, and the pane shows no prompt.
PromptGone ==
  /\ PollRead
  /\ DictGet(interactive_mode, ThreadOr0(pl.thread_id), None) = pl.window_name
  /\ ~ is_interactive_ui(pane)

\* C31: when the poller finds the topic in interactive mode for its window
\* and the pane shows no prompt, it removes the interactive mode and the
\* tracked keyboard message of the topic, and it goes on to the status line
\* only: it does not look for a new prompt and sends no keyboard message in
\* that tick.
C31_ClearedNotResent ==
  [][/\ PromptGone =>
          /\ ThreadOr0(pl.thread_id) \notin DOMAIN interactive_mode'
          /\ ThreadOr0(pl.thread_id) \notin DOMAIN interactive_msgs'
          /\ pl'.pc \in {"idle", "clear"}
          /\ pl'.pc = "clear" => ~ pl'.should_check_new_ui
     /\ (PollClear /\ ~ pl.should_check_new_ui) => pl'.pc = "idle"]_vars

\* The poller deletes the keyboard message of a prompt that is gone: the
\* mode was this window's, and it is cleared.
C31_Witness ==
  /\ pl.pc = "clear" /\ ~ pl.should_check_new_ui
  /\ ~ is_interactive_ui(pl.pane_text)
  /\ ThreadOr0(pl.thread_id) \notin DOMAIN interactive_mode

(* ----- A prompt that was answered (LiveUI) ----- *)

\* The worker can take a step exactly where WorkerCanStep says so.
WorkerEnabled == WorkerCanStep <=> ENABLED <<Worker>>_vars

\* Weak fairness of the worker, WF_vars(Worker), with its enabling condition
\* written out: the awaits of the worker return.
WorkerFair == []<>(~ WorkerCanStep) \/ []<><<Worker>>_vars

\* SpecUI with the scheduling of the event loop: the worker's awaits
\* return, and the poller wakes up every second and its awaits return.
LiveUI == SpecUI /\ WorkerFair /\ WF_vars(Poller)

\* The prompt was drawn and has been answered: the pane shows it no more.
PromptAnswered ==
  /\ \E k \in 1..Len(emitted) : emitted[k] = "ask"
  /\ ~ is_interactive_ui(pane)

\* The topic is not in interactive mode and no keyboard message is tracked
\* for it.
NotInteractive ==
  /\ ThreadOr0(41) \notin DOMAIN interactive_mode
  /\ ThreadOr0(41) \notin DOMAIN interactive_msgs

\* C32: once the prompt has been answered and the pane shows it no more, the
\* keyboard message is deleted and the interactive mode of the topic is
\* cleared: the topic does not stay in interactive mode.
C32_GonePromptCleared == PromptAnswered ~> NotInteractive

\* The prompt has been answered while its keyboard message is tracked and
\* the topic is in interactive mode.
C32_Witness ==
  /\ PromptAnswered
  /\ get_interactive_window(41) = "proj"
  /\ get_interactive_msg_id(41) # NoMessage

(* ----- The window states after load_session_map (SpecMap) ----- *)

\* load_session_map has read a map file that exists and is JSON.
MapWasRead == load_session_map /\ map_file.kind = "json"

\* The state of every window of the map's entries of this session that has
\* a session id is the entry's (session_id, cwd).
StatesFollowMap ==
  \A wn \in valid_windows(map_file.map) :
    InfoOf(map_file.map, wn).session_id # "" =>
      /\ wn \in DOMAIN window_states'
      /\ window_states'[wn].session_id = InfoOf(map_file.map, wn).session_id
      /\ window_states'[wn].cwd = InfoOf(map_file.map, wn).cwd

LoopsAlive == ploop.pc # "dead" /\ mloop.pc # "dead"

\* At the end of an iteration every item of it was worked on: those that
\* raised no error, and those that did, up to the error.
IterationComplete(l) == l.pc = "sleep" => l.due \subseteq l.seen \cup l.raised

\* The poller alone: an error for one binding ends neither the loop nor the
\* work on the other bindings.
PollLoopIsolates == ploop.pc # "dead" /\ IterationComplete(ploop)

\* C34: an error raised for one binding or one session never ends the
\* poller's or the monitor's loop, and the other bindings and sessions of
\* the same iteration are still worked on.
C34_ErrorsIsolated ==
  /\ LoopsAlive
  /\ IterationComplete(ploop)
  /\ IterationComplete(mloop)

\* An iteration of the monitor ended by the error of its first session,
\* with the second session left out.
C34_Witness ==
  /\ mloop.pc = "sleep"
  /\ mloop.raised = {"s1"}
  /\ mloop.due = {"s1", "s2"}
  /\ mloop.seen = {}

(* ----- One keyboard message for a prompt (SpecUI) ----- *)

\* handle_interactive_ui, called by the poller or by the handler, has sent
\* a new keyboard message.
KeyboardIsSent == PollSendUI("ok") \/ HandlerSendUI("ok")

\* C35: the poller and the handler together send one keyboard message for
\* the prompt, and it is the tracked one: a new keyboard message is sent
\* only when no keyboard message is tracked for the thread.
C35_OneKeyboard ==
  [][KeyboardIsSent => get_interactive_msg_id(41) = NoMessage]_vars

\* The poller and the handler have both found the prompt with no keyboard
\* message on record, and both are about to send one.
C35_Witness ==
  /\ pl.pc = "ui_send"
  /\ h.pc = "ui_send"
  /\ get_interactive_msg_id(41) = NoMessage

(* ----- The status messages of a topic (SpecDeliver) ----- *)

\* The status message on record for the topic, if there is one.
TrackedStatus == IF TopicKey \in mem.status_msg_info THEN {s_id} ELSE {}

\* C36: whenever the worker is between two tasks, every status message
\* that was sent to the topic and neither deleted nor turned into content
\* is the one on record in _status_msg_info; so there is at most one, and
\* none that is not tracked.
C36_StatusTracked == dw.pc = "get" => s_live \subseteq TrackedStatus

\* text_handler has forgotten the status message of the topic, which is
\* still in the chat.
C36_Witness ==
  /\ th.pc = "idle"
  /\ dw.pc = "get"
  /\ s_live = {1}
  /\ TopicKey \notin mem.status_msg_info
  /\ <<100, 41, "proj">> \in keys_sent

(* ----- Entries recorded after a topic's cleanup (SpecDeliver) ----- *)

\* The topic is not bound, and clear_topic_state has run for it to its end.
CleanedUp ==
  /\ get_window_for_thread(100, 41) = None
  /\ \E caller \in {"topic_closed_handler", "status_poll_loop"} :
       <<100, 41, caller>> \in cleaned

NoStatusEntry == TopicKey \notin mem.status_msg_info

NoToolEntry == ToolKey \notin mem.tool_msg_ids

NoInteractiveEntry ==
  TopicKey \notin mem.interactive_msgs /\ TopicKey \notin mem.interactive_mode

\* After the cleanup no status entry is recorded.
StatusStaysCleared == CleanedUp => NoStatusEntry

\* After the cleanup no tool message is recorded.
ToolStaysCleared == CleanedUp => NoToolEntry

\* After the cleanup no interactive prompt is recorded.
InteractiveStaysCleared == CleanedUp => NoInteractiveEntry

\* C37: once the topic is unbound and its cleanup has run, the dictionaries
\* hold no status, tool-message or interactive entry for it (the topic is
\* not bound again), whatever tasks were queued and wherever the poller was
\* at the time of the cleanup.
C37_NothingAfterCleanup ==
  CleanedUp => NoStatusEntry /\ NoToolEntry /\ NoInteractiveEntry

\* The cleanup has run with a task of the topic still in the queue.
C37_Witness == CleanedUp /\ dq # << >> /\ NoStatusEntry /\ NoToolEntry

(* ----- No record of a tracked session is skipped (SpecMon) ----- *)

\* check_for_updates, coming to a tracked session of the session map, skips
\* it: the mtime of its file is not newer than the cached one.
MtimeSkips(sid) ==
  /\ sid \in mon.active
  /\ sid \in DOMAIN tracked_sessions
  /\ files[sid].mtime <= DictGet(file_mtimes, sid, 0)

\* The file of a tracked session holds records beyond the stored offset.
Unread(sid) == tracked_sessions[sid] < FileSize(files[sid].recs)

\* The advance of the offset skips nothing: the read of a file that was
\* never truncated returns records of as many bytes as the offset moves.
OffsetAdvanceReadsAll ==
  [][(MonReadLines /\ mon.sid \notin truncated)
       => FileSize(mon'.last_read) = tracked_sessions'[mon.sid] - tracked_sessions[mon.sid]]_vars

\* C38: no record appended as a whole line to the file of a tracked session
\* is skipped: when the pass over the sessions skips the first session by
\* its mtime, the session's file (never truncated) holds no record that was
\* not read, and the advance of the offset skips nothing.
C38_NoRecordSkipped ==
  [][/\ (MonScan /\ "s1" \notin truncated /\ MtimeSkips("s1")) => ~ Unread("s1")
     /\ (MonReadLines /\ mon.sid \notin truncated)
          => FileSize(mon'.last_read) =
               tracked_sessions'[mon.sid] - tracked_sessions[mon.sid]]_vars

\* A tracked session of the map whose file holds a record that was not
\* read, with the mtime that is cached.
C38_Witness ==
  /\ mon.pc = "scan"
  /\ "s1" \notin truncated
  /\ MtimeSkips("s1")
  /\ Unread("s1")

(* ----- The start of the tracking of a session (SpecMon) ----- *)

\* A step of check_for_updates starts tracking the session.
StartsTracking(sid) ==
  /\ MonScan \/ MonReadLines
  /\ sid \notin DOMAIN tracked_sessions
  /\ sid \in DOMAIN tracked_sessions'

\* The records of a file that start at or beyond a byte offset.
RecordsFrom(recs, offset) ==
  SelectSeq(recs, LAMBDA r :
    \E k \in 1..Len(recs) : recs[k] = r /\ FileSize(SubSeq(recs, 1, k - 1)) >= offset)

C40_MergedSameThread ==
  m_result # << >> =>
    \A k \in 1..m_result[1].merge_count : m_items[k].thread_id = m_first.thread_id

\* The text of another topic, for the same window, was absorbed into the
\* task of topic 41.
C40_Witness ==
  /\ m_result # << >>
  /\ m_result[1].merge_count = 1
  /\ m_first.thread_id = 41
  /\ m_items[1].thread_id = 42
  /\ m_result[1].merged_task.thread_id = 41
  /\ Len(m_result[1].merged_task.parts) = 2

=============================================================================
